---- MODULE Spec2Model ----
(***************************************************************************)
(* A model of amptimal_shared: the retry executor (retry.py) in its        *)
(* synchronous and asynchronous forms, the backoff computation, the        *)
(* secret resolution cache (secrets.py), the shared async Redis            *)
(* connection (redis_client.py), rate limiting (rate_limit.py), the auth   *)
(* dependencies (auth.py) and the health app (health.py).                  *)
(*                                                                         *)
(* Each utility has its own specification over the shared variable list:   *)
(*   SpecBackoff      calculate_backoff applied to bounded inputs          *)
(*   SpecRetry        one decorated call and one async call, one policy    *)
(*   SpecRetryFair    the same calls run to their end                      *)
(*   SpecSecrets      get_secret / clear_cache called one after another    *)
(*   SpecSecretsConc  get_secret / clear_cache called from two threads     *)
(*   SpecSecretsRace  get_secret called from two threads, no clear_cache   *)
(*   SpecRedis        get_async_redis / close_redis one after another      *)
(*   SpecRedisConc    get_async_redis / close_redis of concurrent tasks    *)
(*   SpecRateLimit    setup_rate_limiting / rate_limit in any order        *)
(*   SpecAuth         a request through require_role / require_permission  *)
(*   SpecHealth       GET /health and GET /ready on a health app           *)
(* A specification leaves the variables of the other utilities unchanged.  *)
(***************************************************************************)
EXTENDS Integers, Sequences, FiniteSets, TLC

VARIABLES
    \* ---- calculate_backoff applied as a pure function (SpecBackoff)
    cb_attempt,         \* argument attempt
    cb_max,             \* argument max_backoff_seconds
    cb_base,            \* argument base
    cb_result,          \* the returned delay, once cb_pc = "returned"
    cb_pc,              \* "args" | "returned"
    \* ---- retry executor (SpecRetry)
    policy,             \* the Retry Policy of the invocation
    outcomes,           \* outcomes[j]: what the j-th invocation of the operation does
    pc,                 \* per mode: "idle" | "loop" | "on_retry" | "sleep" | "done"
    attempt,            \* per mode: the loop variable of `for attempt in range(...)`
    last_exception,     \* per mode: retry.py:76 / retry.py:137
    delay,              \* per mode: the local `delay` of retry.py:85 / retry.py:146
    events,             \* per mode: the calls, on_retry calls and sleeps made so far
    result,             \* per mode: how the call ended
    \* ---- secret resolution cache (SpecSecrets)
    _cache,             \* secrets.py:26, a mapping from secret names to values
    environ,            \* os.environ at the keys the secret names derive
    sec_pc,             \* per caller: "idle" | "l53" | "l54" | "l57" | "l58" | "l63" | "l64" | "done"
    sec_name,           \* per caller: get_secret's argument secret_name
    sec_region,         \* per caller: get_secret's argument region
    sec_secret,         \* per caller: get_secret's local `secret`
    sec_ret,            \* per caller: how the call ended
    sec_hit,            \* per caller: whether the test of secrets.py:53 found the name
    sec_seen,           \* per caller: the value the cache held for the name at that test
    sec_lookups,        \* per caller: the source lookups the call has made, in order
    resolved,           \* per name: get_secret calls completed since the last clear
    aws_calls,          \* per name: _fetch_from_aws calls since the last clear
    env_calls,          \* per name: _fetch_from_env calls since the last clear
    \* ---- history of the cache, recorded beside the calls (no code reads it)
    before_clear,       \* what _cache held when clear_cache last ran, at the names
                        \* no call has resolved and handed back since
    populated_by,       \* per name: the region of the call that wrote the entry
    sec_stale,          \* per caller: it holds a value looked up before the last clear
    stale_names,        \* names whose entry was written from such a value
    \* ---- shared async Redis connection (SpecRedis)
    _redis,             \* redis_client.py:28, no connection or the shared connection
    conns,              \* the connections aioredis.from_url has created, in order
    redis_env,          \* os.environ at REDIS_URL
    redis_pc,           \* per coroutine: "idle" | "l76" | "done"
    redis_args,         \* per coroutine: the call it is in and its arguments
    redis_ret,          \* per coroutine: the connection get_async_redis returned
    redis_closing,      \* per coroutine: the connection close_redis awaits aclose() on
    redis_first,        \* the first get_async_redis call since the last close
    redis_created,      \* aioredis.from_url calls since the last close
    redis_returned,     \* the connections get_async_redis returned since the last close
    \* ---- rate limiting (SpecRateLimit)
    _SLOWAPI_AVAILABLE, \* rate_limit.py:37-44, whether `import slowapi` succeeded
    _limiter,           \* rate_limit.py:49, None or the configured Limiter
    limiters,           \* the Limiter objects created, in order
    app_state_limiter,  \* app.state.limiter
    app_handlers,       \* app.add_exception_handler calls made so far
    decorated,          \* per function: what rate_limit(limit)(func) returned
    setup_ret,          \* what the last setup_rate_limiting call returned
    setup_last,         \* the last setup_rate_limiting call and the state it found
    \* ---- auth dependencies (SpecAuth)
    auth_request,       \* the X-User-Id and X-User-Roles headers of the request
    auth_dep,           \* the factory that built the dependency and its arguments
    auth_pc,            \* "request" | "done"
    auth_response,      \* the user returned, or the HTTPException raised
    contracts,          \* what `from domains.auth.roles import ROLE_PERMISSIONS` gives
    _ROLE_PERMISSIONS,  \* auth.py:43
    _contracts_loaded,  \* auth.py:44
    \* ---- health app (SpecHealth)
    health_app,         \* the arguments of create_health_app
    health_pc,          \* "idle" | "l79" | "l81" | "l83" | "l99" | "done"
    health_endpoint,    \* the path of the request being served
    deps_ok,            \* the local of ready()
    health_exc,         \* the exception in flight inside ready()
    health_calls,       \* the callbacks invoked while serving the request
    health_response     \* what the client gets

cb_vars == <<cb_attempt, cb_max, cb_base, cb_result, cb_pc>>
retry_vars == <<policy, outcomes, pc, attempt, last_exception, delay, events, result>>
sec_vars ==
    <<_cache, environ, sec_pc, sec_name, sec_region, sec_secret, sec_ret, sec_hit,
      sec_seen, sec_lookups, resolved, aws_calls, env_calls>>
sec_obs == <<before_clear, populated_by, sec_stale, stale_names>>
redis_vars ==
    <<_redis, conns, redis_env, redis_pc, redis_args, redis_ret, redis_closing,
      redis_first, redis_created, redis_returned>>
auth_vars ==
    <<auth_request, auth_dep, auth_pc, auth_response, contracts, _ROLE_PERMISSIONS,
      _contracts_loaded>>
health_vars ==
    <<health_app, health_pc, health_endpoint, deps_ok, health_exc, health_calls,
      health_response>>
rl_vars ==
    <<_SLOWAPI_AVAILABLE, _limiter, limiters, app_state_limiter, app_handlers,
      decorated, setup_ret, setup_last>>
vars == <<cb_vars, retry_vars, sec_vars, sec_obs, redis_vars, rl_vars, auth_vars, health_vars>>

(***************************************************************************)
(* Bounds of the model.                                                    *)
(***************************************************************************)
\* max_attempts ranges over -1 .. MaxAttempts
MaxAttempts == 3
\* at most MaxResolves get_secret calls per name between two clears
MaxResolves == 2
\* calculate_backoff is applied to attempts 0 .. MaxBackoffAttempt
MaxBackoffAttempt == 10
\* ... and to bases -MaxBase .. MaxBase
MaxBase == 3
\* aioredis.from_url creates at most MaxConns connections
MaxConns == 2
\* setup_rate_limiting constructs at most MaxLimiters Limiter objects
MaxLimiters == 2
\* the X-User-Roles header has at most MaxHeaderLen pieces
MaxHeaderLen == 3

(***************************************************************************)
(* Python values.  An object is a record of its class, its identity and    *)
(* its truth value (bool(obj)); None is the one object of NoneType.        *)
(***************************************************************************)
PyObj(kind, id, truthy) == [kind |-> kind, id |-> id, truthy |-> truthy]

PyNone == PyObj("NoneType", 0, FALSE)

\* The classes an exception class is an instance of (its method resolution order).
Mro(kind) ==
    CASE kind = "ValueError" -> {"ValueError", "Exception", "BaseException"}
      [] kind = "TypeError" -> {"TypeError", "Exception", "BaseException"}
      [] kind = "RuntimeError" -> {"RuntimeError", "Exception", "BaseException"}
      [] kind = "KeyboardInterrupt" -> {"KeyboardInterrupt", "BaseException"}
      [] OTHER -> {kind}

\* `except retryable_exceptions as e` catches e iff it is an instance of one of
\* the classes of the tuple.
Catches_any(classes, exc) == TRUE
Catches(classes, exc) == Mro(exc.kind) \cap classes # {}

(***************************************************************************)
(* calculate_backoff (retry.py:15-40)                                      *)
(***************************************************************************)
\* base**attempt for a non-negative integer attempt, by repeated multiplication
RECURSIVE PyPow(_, _)
PyPow(base, n) == IF n <= 0 THEN 1 ELSE base * PyPow(base, n - 1)

\* min(a, b) of two numbers: b only when it is strictly smaller
PyMin(a, b) == IF b < a THEN b ELSE a

\* int(x) of an integer is that integer
PyInt(x) == x

calculate_backoff_off_by_one(a, max_backoff_seconds, base) ==
    PyInt(PyMin(PyPow(base, a + 1), max_backoff_seconds))

calculate_backoff(a, max_backoff_seconds, base) ==
    PyInt(PyMin(PyPow(base, a), max_backoff_seconds))

\* The defaults of calculate_backoff's parameters (retry.py:17-18)
DefaultMaxBackoff == 300
DefaultBase == 2


\* The ceilings calculate_backoff is applied to
BackoffCeilings == {-1, 0, 1, 3, 60, DefaultMaxBackoff}

cb_idle ==
    /\ cb_attempt = 0
    /\ cb_max = DefaultMaxBackoff
    /\ cb_base = DefaultBase
    /\ cb_result = 0
    /\ cb_pc = "unused"

\* calculate_backoff(cb_attempt, cb_max, cb_base) returns
cb_apply ==
    /\ cb_pc = "args"
    /\ cb_result' = calculate_backoff(cb_attempt, cb_max, cb_base)
    /\ cb_pc' = "returned"
    /\ UNCHANGED <<cb_attempt, cb_max, cb_base>>

(***************************************************************************)
(* The retry executor: retry_with_backoff(...)(func) called once           *)
(* (retry.py:75-102) and async_retry_with_backoff awaited once             *)
(* (retry.py:137-160), under the same policy.                              *)
(*                                                                         *)
(* The policy is the Retry Policy record of the data model.  The code      *)
(* takes max_attempts, max_backoff_seconds, retryable_exceptions and       *)
(* on_retry (retry.py:43-48, 109-115); it has no parameter for base, so    *)
(* policy.base is what the caller means to configure and no statement of   *)
(* either executor reads it.                                               *)
(*                                                                         *)
(* The operation is an input: the outcome of its j-th invocation is drawn  *)
(* when an executor first makes a j-th invocation, and kept in outcomes,   *)
(* so the other executor meets the same operation.  The executors share    *)
(* no state (each has its own locals), so the model runs the decorated     *)
(* call to its end and then the async call.                                *)
(***************************************************************************)
Modes == {"sync", "async"}

\* What a raising invocation can raise: (class, truth value of the object).
\* ValueError and TypeError are Exceptions; KeyboardInterrupt is not.
FailureShapes ==
    { <<"ValueError", TRUE>>, <<"ValueError", FALSE>>,
      <<"TypeError", TRUE>>, <<"KeyboardInterrupt", TRUE>> }

\* The outcomes the j-th invocation of the operation can have.  The object
\* returned or raised by the j-th invocation has identity j.
OpOutcomes(j) ==
    { [ok |-> TRUE, obj |-> PyObj("str", j, TRUE)] }
    \cup { [ok |-> FALSE, obj |-> PyObj(s[1], j, s[2])] : s \in FailureShapes }

\* on_retry: None, or a callable that raises at the attempt indices raises_at.
OnRetryChoices ==
    { [present |-> FALSE, raises_at |-> {}] }
    \cup { [present |-> TRUE, raises_at |-> r] : r \in {{}} \cup { {i} : i \in 0 .. MaxAttempts - 2 } }

\* What the observer raises when called with attempt index i.
ObserverFailure(i) == PyObj("RuntimeError", 100 + i, TRUE)

Policies ==
    [ max_attempts : -1 .. MaxAttempts,
      max_backoff_seconds : {1, 3, DefaultMaxBackoff},
      base : {DefaultBase, DefaultBase + 1},
      retryable_exceptions : { {"Exception"}, {"ValueError"} },
      on_retry : OnRetryChoices ]

Pending == [type |-> "pending", obj |-> PyNone]
Returned(obj) == [type |-> "return", obj |-> obj]
Raised(obj) == [type |-> "raise", obj |-> obj]

CallEvent(j) == [ev |-> "call", n |-> j, obj |-> PyNone]
OnRetryEvent(exc, i) == [ev |-> "on_retry", n |-> i, obj |-> exc]
SleepEvent(d) == [ev |-> "sleep", n |-> d, obj |-> PyNone]

retry_idle ==
    /\ policy = [ max_attempts |-> 0, max_backoff_seconds |-> DefaultMaxBackoff,
                  base |-> DefaultBase, retryable_exceptions |-> {"Exception"},
                  on_retry |-> [present |-> FALSE, raises_at |-> {}] ]
    /\ outcomes = <<>>
    /\ pc = [m \in Modes |-> "unused"]
    /\ attempt = [m \in Modes |-> 0]
    /\ last_exception = [m \in Modes |-> PyNone]
    /\ delay = [m \in Modes |-> 0]
    /\ events = [m \in Modes |-> <<>>]
    /\ result = [m \in Modes |-> Pending]

\* The outcomes the j-th invocation can have now: the recorded one, or any.
InvocationOutcomes(j) ==
    IF j <= Len(outcomes) THEN {outcomes[j]} ELSE OpOutcomes(j)

\* The j-th invocation has had outcome o.
Invoked(j, o) ==
    outcomes' = IF j <= Len(outcomes) THEN outcomes ELSE Append(outcomes, o)


(***************************************************************************)
(* The wrapper that retry_with_backoff(...)(func) returns, retry.py:75-102 *)
(***************************************************************************)
\* `for attempt in range(max_attempts)` has an iteration for index a (retry.py:78)
wrapper_in_range(a) == a < policy.max_attempts

\* a handler that retries after the last allowed attempt as after any other
wrapper_attempts_remain_after_last(a) == a < policy.max_attempts
\* `if attempt < max_attempts - 1` (retry.py:84)
wrapper_attempts_remain(a) == a < policy.max_attempts - 1

\* `delay = calculate_backoff(attempt, max_backoff_seconds)` (retry.py:85): two
\* arguments, so base is calculate_backoff's default.
wrapper_delay_from_one(a) == calculate_backoff(a + 1, policy.max_backoff_seconds, DefaultBase)
wrapper_delay(a) == calculate_backoff(a, policy.max_backoff_seconds, DefaultBase)

\* `if on_retry:` (retry.py:91)
wrapper_has_observer == policy.on_retry.present

\* Where the handler goes after a retryable failure with attempts remaining.
wrapper_after_failure_sleep_first == "sleep"
wrapper_after_failure == IF wrapper_has_observer THEN "on_retry" ELSE "sleep"

\* Where the handler goes when on_retry returns: to time.sleep (retry.py:94).
wrapper_after_observer_no_sleep == "loop"
wrapper_after_observer == "sleep"

\* What on_retry(e, attempt) does when the observer raises (retry.py:92): nothing
\* around the call catches it.
wrapper_observer_raised_swallowed(a) == [pc |-> "sleep", result |-> Pending]
wrapper_observer_raised(a) == [pc |-> "done", result |-> Raised(ObserverFailure(a))]

\* `if last_exception: raise last_exception` (retry.py:101-102); falling off the end
\* of the function returns None.
wrapper_after_loop(last) == IF last.truthy THEN Raised(last) ELSE Returned(PyNone)

\* The wrapper is called (retry.py:75-76).
wrapper_call ==
    /\ pc["sync"] = "idle"
    /\ pc' = [pc EXCEPT !["sync"] = "loop"]
    /\ last_exception' = [last_exception EXCEPT !["sync"] = PyNone]
    /\ attempt' = [attempt EXCEPT !["sync"] = 0]
    /\ UNCHANGED <<policy, outcomes, delay, events, result>>

\* One iteration of the loop up to the end of the try statement or to the
\* observer: func is invoked; its value is returned, or its failure propagates,
\* or the handler of retry.py:81-98 runs.
wrapper_attempt ==
    /\ pc["sync"] = "loop"
    /\ wrapper_in_range(attempt["sync"])
    /\ LET a == attempt["sync"]
           j == attempt["sync"] + 1
       IN \E o \in InvocationOutcomes(j) :
            /\ Invoked(j, o)
            /\ events' = [events EXCEPT !["sync"] = Append(@, CallEvent(j))]
            /\ IF o.ok
               THEN /\ result' = [result EXCEPT !["sync"] = Returned(o.obj)]
                    /\ pc' = [pc EXCEPT !["sync"] = "done"]
                    /\ UNCHANGED <<last_exception, delay, attempt>>
               ELSE IF ~Catches(policy.retryable_exceptions, o.obj)
               THEN /\ result' = [result EXCEPT !["sync"] = Raised(o.obj)]
                    /\ pc' = [pc EXCEPT !["sync"] = "done"]
                    /\ UNCHANGED <<last_exception, delay, attempt>>
               ELSE /\ last_exception' = [last_exception EXCEPT !["sync"] = o.obj]
                    /\ IF wrapper_attempts_remain(a)
                       THEN /\ delay' = [delay EXCEPT !["sync"] = wrapper_delay(a)]
                            /\ pc' = [pc EXCEPT !["sync"] = wrapper_after_failure]
                            /\ UNCHANGED <<attempt, result>>
                       ELSE /\ attempt' = [attempt EXCEPT !["sync"] = a + 1]
                            /\ UNCHANGED <<delay, pc, result>>
    /\ UNCHANGED policy

\* `on_retry(e, attempt)` (retry.py:91-92)
wrapper_on_retry ==
    /\ pc["sync"] = "on_retry"
    /\ LET a == attempt["sync"]
       IN /\ events' = [events EXCEPT !["sync"] = Append(@, OnRetryEvent(last_exception["sync"], a))]
          /\ IF a \in policy.on_retry.raises_at
             THEN /\ pc' = [pc EXCEPT !["sync"] = wrapper_observer_raised(a).pc]
                  /\ result' = [result EXCEPT !["sync"] = wrapper_observer_raised(a).result]
             ELSE /\ pc' = [pc EXCEPT !["sync"] = wrapper_after_observer]
                  /\ UNCHANGED result
    /\ UNCHANGED <<policy, outcomes, attempt, last_exception, delay>>

\* `time.sleep(delay)` returns (retry.py:94) and the loop goes to its next index.
wrapper_sleep ==
    /\ pc["sync"] = "sleep"
    /\ events' = [events EXCEPT !["sync"] = Append(@, SleepEvent(delay["sync"]))]
    /\ attempt' = [attempt EXCEPT !["sync"] = @ + 1]
    /\ pc' = [pc EXCEPT !["sync"] = "loop"]
    /\ UNCHANGED <<policy, outcomes, last_exception, delay, result>>

\* The loop is exhausted (retry.py:78, 100-102).
wrapper_exhausted ==
    /\ pc["sync"] = "loop"
    /\ ~wrapper_in_range(attempt["sync"])
    /\ result' = [result EXCEPT !["sync"] = wrapper_after_loop(last_exception["sync"])]
    /\ pc' = [pc EXCEPT !["sync"] = "done"]
    /\ UNCHANGED <<policy, outcomes, attempt, last_exception, delay, events>>


(***************************************************************************)
(* async_retry_with_backoff(func, ...), retry.py:137-160                   *)
(***************************************************************************)
\* `for attempt in range(max_attempts)` (retry.py:139)
async_in_range(a) == a < policy.max_attempts

\* `if attempt < max_attempts - 1` (retry.py:145)
async_attempts_remain(a) == a < policy.max_attempts - 1

\* `delay = calculate_backoff(attempt, max_backoff_seconds)` (retry.py:146)
async_delay_uncapped(a) == PyInt(PyPow(DefaultBase, a))
async_delay(a) == calculate_backoff(a, policy.max_backoff_seconds, DefaultBase)

\* `if on_retry:` (retry.py:152)
async_has_observer == policy.on_retry.present

async_after_failure == IF async_has_observer THEN "on_retry" ELSE "sleep"

\* on_retry(e, attempt) raises (retry.py:153): nothing around the call catches it.
async_observer_raised(a) == [pc |-> "done", result |-> Raised(ObserverFailure(a))]

\* `if last_exception: raise last_exception` (retry.py:159-160)
async_after_loop(last) == IF last.truthy THEN Raised(last) ELSE Returned(PyNone)

\* The coroutine starts (retry.py:135-137).
async_call ==
    /\ pc["sync"] = "done"
    /\ pc["async"] = "idle"
    /\ pc' = [pc EXCEPT !["async"] = "loop"]
    /\ last_exception' = [last_exception EXCEPT !["async"] = PyNone]
    /\ attempt' = [attempt EXCEPT !["async"] = 0]
    /\ UNCHANGED <<policy, outcomes, delay, events, result>>

\* One iteration of the loop: `await func()` returns or raises (retry.py:139-157).
async_attempt ==
    /\ pc["async"] = "loop"
    /\ async_in_range(attempt["async"])
    /\ LET a == attempt["async"]
           j == attempt["async"] + 1
       IN \E o \in InvocationOutcomes(j) :
            /\ Invoked(j, o)
            /\ events' = [events EXCEPT !["async"] = Append(@, CallEvent(j))]
            /\ IF o.ok
               THEN /\ result' = [result EXCEPT !["async"] = Returned(o.obj)]
                    /\ pc' = [pc EXCEPT !["async"] = "done"]
                    /\ UNCHANGED <<last_exception, delay, attempt>>
               ELSE IF ~Catches(policy.retryable_exceptions, o.obj)
               THEN /\ result' = [result EXCEPT !["async"] = Raised(o.obj)]
                    /\ pc' = [pc EXCEPT !["async"] = "done"]
                    /\ UNCHANGED <<last_exception, delay, attempt>>
               ELSE /\ last_exception' = [last_exception EXCEPT !["async"] = o.obj]
                    /\ IF async_attempts_remain(a)
                       THEN /\ delay' = [delay EXCEPT !["async"] = async_delay(a)]
                            /\ pc' = [pc EXCEPT !["async"] = async_after_failure]
                            /\ UNCHANGED <<attempt, result>>
                       ELSE /\ attempt' = [attempt EXCEPT !["async"] = a + 1]
                            /\ UNCHANGED <<delay, pc, result>>
    /\ UNCHANGED policy

\* `on_retry(e, attempt)` (retry.py:152-153)
async_on_retry ==
    /\ pc["async"] = "on_retry"
    /\ LET a == attempt["async"]
       IN /\ events' = [events EXCEPT !["async"] = Append(@, OnRetryEvent(last_exception["async"], a))]
          /\ IF a \in policy.on_retry.raises_at
             THEN /\ pc' = [pc EXCEPT !["async"] = async_observer_raised(a).pc]
                  /\ result' = [result EXCEPT !["async"] = async_observer_raised(a).result]
             ELSE /\ pc' = [pc EXCEPT !["async"] = "sleep"]
                  /\ UNCHANGED result
    /\ UNCHANGED <<policy, outcomes, attempt, last_exception, delay>>

\* `await asyncio.sleep(delay)` returns (retry.py:155).
async_sleep ==
    /\ pc["async"] = "sleep"
    /\ events' = [events EXCEPT !["async"] = Append(@, SleepEvent(delay["async"]))]
    /\ attempt' = [attempt EXCEPT !["async"] = @ + 1]
    /\ pc' = [pc EXCEPT !["async"] = "loop"]
    /\ UNCHANGED <<policy, outcomes, last_exception, delay, result>>

\* The loop is exhausted (retry.py:139, 159-160).
async_exhausted ==
    /\ pc["async"] = "loop"
    /\ ~async_in_range(attempt["async"])
    /\ result' = [result EXCEPT !["async"] = async_after_loop(last_exception["async"])]
    /\ pc' = [pc EXCEPT !["async"] = "done"]
    /\ UNCHANGED <<policy, outcomes, attempt, last_exception, delay, events>>

(***************************************************************************)
(* The secret resolution cache, secrets.py                                 *)
(*                                                                         *)
(* Secret names are strings, modelled as sequences of characters so that   *)
(* the derivation of the environment key is computed.  What AWS answers is *)
(* an input drawn at each lookup (the store is remote and may change at    *)
(* any time); os.environ is state of the process.                          *)
(***************************************************************************)
Callers == {"t1", "t2"}

SecretNames == { <<"a", "/", "b">>, <<"A", "_", "B">> }

Regions == {"us-east-1", "eu-west-1"}

\* str.upper() on the characters of the names
UpperChar(c) ==
    CASE c = "a" -> "A"
      [] c = "b" -> "B"
      [] OTHER -> c

\* secret_name.replace("/", "_").upper() (secrets.py:122)
env_key(name) ==
    [i \in 1 .. Len(name) |-> UpperChar(IF name[i] = "/" THEN "_" ELSE name[i])]

EnvKeys == { env_key(n) : n \in SecretNames }

\* Python values of the cache: a tagged rendering of the value.
SecVal(t, v) == [t |-> t, v |-> v]
SecNone == SecVal("NoneType", "")

\* The raw strings a source may hold: a JSON object, text that is not JSON,
\* a JSON number, and JSON null.
RawStrings == {"{\"host\": \"x\"}", "plain", "123", "null"}

Unset == "<unset>"

\* json.loads(raw): the parsed value, or JSONDecodeError.
json_loads(raw) ==
    CASE raw = "{\"host\": \"x\"}" -> [ok |-> TRUE, val |-> SecVal("dict", "host=x")]
      [] raw = "123" -> [ok |-> TRUE, val |-> SecVal("int", "123")]
      [] raw = "null" -> [ok |-> TRUE, val |-> SecNone]
      [] OTHER -> [ok |-> FALSE, val |-> SecNone]

\* {"value": raw}
wrap_value(raw) == SecVal("dict", "value=" \o raw)

\* What the AWS side of _fetch_from_aws can do: boto3 is not installed, the
\* client or the request fails, the response holds a SecretString, or it holds
\* a SecretBinary (bytes that decode as UTF-8 or do not).
AwsResponses ==
    { [kind |-> "ImportError", data |-> ""], [kind |-> "ClientError", data |-> ""] }
    \cup { [kind |-> "SecretString", data |-> r] : r \in RawStrings }
    \cup { [kind |-> "SecretBinary", data |-> b] : b \in {"plain", "<not utf-8>"} }

\* _fetch_from_aws (secrets.py:74-104) given what the AWS side does.
fetch_from_aws(resp) ==
    CASE resp.kind = "ImportError" -> SecNone
      [] resp.kind = "ClientError" -> SecNone
      [] resp.kind = "SecretString" ->
            IF json_loads(resp.data).ok THEN json_loads(resp.data).val ELSE SecNone
      [] resp.kind = "SecretBinary" ->
            IF resp.data = "<not utf-8>" THEN SecNone ELSE wrap_value(resp.data)

\* _fetch_from_env (secrets.py:107-134)
fetch_from_env(name) ==
    LET raw == environ[env_key(name)]
    IN IF raw = Unset THEN SecNone
       ELSE IF json_loads(raw).ok THEN json_loads(raw).val
       ELSE wrap_value(raw)

\* `secret_name in _cache` (secrets.py:53)
cache_has_never(name) == FALSE
cache_has(name) == name \in DOMAIN _cache

\* `_cache = {secret_name: secret}` in place of the item assignment
cache_put_only(name, secret) == [n \in {name} |-> secret]

\* `_cache[secret_name] = secret` (secrets.py:59, 64)
cache_put(name, secret) ==
    [n \in DOMAIN _cache \cup {name} |-> IF n = name THEN secret ELSE _cache[n]]

\* secrets.py:64 stores whatever _fetch_from_env returned, None included.
cache_after_env_skip_none(name, secret) ==
    IF secret = SecNone THEN _cache ELSE cache_put(name, secret)
cache_after_env(name, secret) == cache_put(name, secret)

SecPending == [type |-> "pending", val |-> SecNone]
SecReturned(v) == [type |-> "return", val |-> v]
SecRaised(kind) == [type |-> "raise", val |-> SecVal(kind, "")]

AwsLookup(name, region, v) == [src |-> "aws", name |-> name, region |-> region, val |-> v]
EnvLookup(name, v) == [src |-> "env", name |-> name, region |-> "", val |-> v]

NoName == <<>>

sec_locals_idle ==
    /\ sec_name = [t \in Callers |-> NoName]
    /\ sec_region = [t \in Callers |-> ""]
    /\ sec_secret = [t \in Callers |-> SecNone]
    /\ sec_ret = [t \in Callers |-> SecPending]
    /\ sec_hit = [t \in Callers |-> FALSE]
    /\ sec_seen = [t \in Callers |-> SecNone]
    /\ sec_lookups = [t \in Callers |-> <<>>]

\* No write of secrets.py:59/64 and no clear_cache() has happened yet.
sec_obs_idle ==
    /\ before_clear = <<>>
    /\ populated_by = [n \in SecretNames |-> ""]
    /\ sec_stale = [t \in Callers |-> FALSE]
    /\ stale_names = {}

sec_idle ==
    /\ sec_obs_idle
    /\ _cache = <<>>
    /\ environ = [k \in EnvKeys |-> Unset]
    /\ sec_pc = [t \in Callers |-> "unused"]
    /\ sec_locals_idle
    /\ resolved = [n \in SecretNames |-> 0]
    /\ aws_calls = [n \in SecretNames |-> 0]
    /\ env_calls = [n \in SecretNames |-> 0]

\* Caller t calls get_secret(name, region) (secrets.py:29-32).
get_secret_call(t, name, region) ==
    /\ sec_pc[t] = "idle"
    /\ resolved[name] < MaxResolves
    /\ sec_pc' = [sec_pc EXCEPT ![t] = "l53"]
    /\ sec_name' = [sec_name EXCEPT ![t] = name]
    /\ sec_region' = [sec_region EXCEPT ![t] = region]
    /\ UNCHANGED <<_cache, environ, sec_secret, sec_ret, sec_hit, sec_seen, sec_lookups,
                   resolved, aws_calls, env_calls>>

\* `if secret_name in _cache:` (secrets.py:53)
get_secret_l53(t) ==
    /\ sec_pc[t] = "l53"
    /\ IF cache_has(sec_name[t])
       THEN /\ sec_pc' = [sec_pc EXCEPT ![t] = "l54"]
            /\ sec_hit' = [sec_hit EXCEPT ![t] = TRUE]
            /\ sec_seen' = [sec_seen EXCEPT ![t] = _cache[sec_name[t]]]
       ELSE /\ sec_pc' = [sec_pc EXCEPT ![t] = "l57"]
            /\ UNCHANGED <<sec_hit, sec_seen>>
    /\ UNCHANGED <<_cache, environ, sec_name, sec_region, sec_secret, sec_ret, sec_lookups,
                   resolved, aws_calls, env_calls>>

\* `return _cache[secret_name]` (secrets.py:54); a name no longer in the
\* mapping raises KeyError.
get_secret_l54(t) ==
    /\ sec_pc[t] = "l54"
    /\ sec_ret' = [sec_ret EXCEPT ![t] =
            IF sec_name[t] \in DOMAIN _cache
            THEN SecReturned(_cache[sec_name[t]])
            ELSE SecRaised("KeyError")]
    /\ sec_pc' = [sec_pc EXCEPT ![t] = "done"]
    /\ resolved' = [resolved EXCEPT ![sec_name[t]] = @ + 1]
    /\ UNCHANGED <<_cache, environ, sec_name, sec_region, sec_secret, sec_hit, sec_seen,
                   sec_lookups, aws_calls, env_calls>>

\* line 57 calling _fetch_from_aws(secret_name): the region is dropped and the
\* callee's default is used
get_secret_l57_default_region(t) ==
    /\ sec_pc[t] = "l57"
    /\ \E resp \in AwsResponses :
         /\ sec_secret' = [sec_secret EXCEPT ![t] = fetch_from_aws(resp)]
         /\ sec_lookups' = [sec_lookups EXCEPT ![t] =
                Append(@, AwsLookup(sec_name[t], "us-east-1", fetch_from_aws(resp)))]
    /\ aws_calls' = [aws_calls EXCEPT ![sec_name[t]] = @ + 1]
    /\ sec_pc' = [sec_pc EXCEPT ![t] = "l58"]
    /\ UNCHANGED <<_cache, environ, sec_name, sec_region, sec_ret, sec_hit, sec_seen,
                   resolved, env_calls>>

\* `secret = _fetch_from_aws(secret_name, region)` (secrets.py:57)
get_secret_l57(t) ==
    /\ sec_pc[t] = "l57"
    /\ \E resp \in AwsResponses :
         /\ sec_secret' = [sec_secret EXCEPT ![t] = fetch_from_aws(resp)]
         /\ sec_lookups' = [sec_lookups EXCEPT ![t] =
                Append(@, AwsLookup(sec_name[t], sec_region[t], fetch_from_aws(resp)))]
    /\ aws_calls' = [aws_calls EXCEPT ![sec_name[t]] = @ + 1]
    /\ sec_pc' = [sec_pc EXCEPT ![t] = "l58"]
    /\ UNCHANGED <<_cache, environ, sec_name, sec_region, sec_ret, sec_hit, sec_seen,
                   resolved, env_calls>>

\* lines 58-60 without the `return secret`: the AWS value is stored and the
\* call goes on to the environment
get_secret_l58_falls_through(t) ==
    /\ sec_pc[t] = "l58"
    /\ IF sec_secret[t] # SecNone
       THEN _cache' = cache_put(sec_name[t], sec_secret[t])
       ELSE UNCHANGED _cache
    /\ sec_pc' = [sec_pc EXCEPT ![t] = "l63"]
    /\ UNCHANGED <<sec_ret, resolved>>
    /\ UNCHANGED <<environ, sec_name, sec_region, sec_secret, sec_hit, sec_seen,
                   sec_lookups, aws_calls, env_calls>>

\* `if secret is not None: _cache[secret_name] = secret; return secret`
\* (secrets.py:58-60)
get_secret_l58(t) ==
    /\ sec_pc[t] = "l58"
    /\ IF sec_secret[t] # SecNone
       THEN /\ _cache' = cache_put(sec_name[t], sec_secret[t])
            /\ sec_ret' = [sec_ret EXCEPT ![t] = SecReturned(sec_secret[t])]
            /\ sec_pc' = [sec_pc EXCEPT ![t] = "done"]
            /\ resolved' = [resolved EXCEPT ![sec_name[t]] = @ + 1]
       ELSE /\ sec_pc' = [sec_pc EXCEPT ![t] = "l63"]
            /\ UNCHANGED <<_cache, sec_ret, resolved>>
    /\ UNCHANGED <<environ, sec_name, sec_region, sec_secret, sec_hit, sec_seen,
                   sec_lookups, aws_calls, env_calls>>

\* `secret = _fetch_from_env(secret_name)` (secrets.py:63)
get_secret_l63(t) ==
    /\ sec_pc[t] = "l63"
    /\ sec_secret' = [sec_secret EXCEPT ![t] = fetch_from_env(sec_name[t])]
    /\ sec_lookups' = [sec_lookups EXCEPT ![t] =
           Append(@, EnvLookup(sec_name[t], fetch_from_env(sec_name[t])))]
    /\ env_calls' = [env_calls EXCEPT ![sec_name[t]] = @ + 1]
    /\ sec_pc' = [sec_pc EXCEPT ![t] = "l64"]
    /\ UNCHANGED <<_cache, environ, sec_name, sec_region, sec_ret, sec_hit, sec_seen,
                   resolved, aws_calls>>

\* `_cache[secret_name] = secret; return secret` (secrets.py:64-65)
get_secret_l64(t) ==
    /\ sec_pc[t] = "l64"
    /\ _cache' = cache_after_env(sec_name[t], sec_secret[t])
    /\ sec_ret' = [sec_ret EXCEPT ![t] = SecReturned(sec_secret[t])]
    /\ sec_pc' = [sec_pc EXCEPT ![t] = "done"]
    /\ resolved' = [resolved EXCEPT ![sec_name[t]] = @ + 1]
    /\ UNCHANGED <<environ, sec_name, sec_region, sec_secret, sec_hit, sec_seen,
                   sec_lookups, aws_calls, env_calls>>

\* The caller has its result and is free for its next call.
get_secret_done(t) ==
    /\ sec_pc[t] = "done"
    /\ sec_pc' = [sec_pc EXCEPT ![t] = "idle"]
    /\ sec_name' = [sec_name EXCEPT ![t] = NoName]
    /\ sec_region' = [sec_region EXCEPT ![t] = ""]
    /\ sec_secret' = [sec_secret EXCEPT ![t] = SecNone]
    /\ sec_ret' = [sec_ret EXCEPT ![t] = SecPending]
    /\ sec_hit' = [sec_hit EXCEPT ![t] = FALSE]
    /\ sec_seen' = [sec_seen EXCEPT ![t] = SecNone]
    /\ sec_lookups' = [sec_lookups EXCEPT ![t] = <<>>]
    /\ UNCHANGED <<_cache, environ, resolved, aws_calls, env_calls>>

\* a clear that drops the values and keeps the names cached as absent
clear_cache_keeps_absent ==
    /\ _cache # <<>> \/ \E n \in SecretNames : resolved[n] > 0
    /\ _cache' = [n \in {k \in DOMAIN _cache : _cache[k] = SecNone} |-> SecNone]
    /\ resolved' = [n \in SecretNames |-> 0]
    /\ aws_calls' = [n \in SecretNames |-> 0]
    /\ env_calls' = [n \in SecretNames |-> 0]
    /\ UNCHANGED <<environ, sec_pc, sec_name, sec_region, sec_secret, sec_ret, sec_hit,
                   sec_seen, sec_lookups>>

\* clear_cache() (secrets.py:68-71)
clear_cache ==
    /\ _cache # <<>> \/ \E n \in SecretNames : resolved[n] > 0
    /\ _cache' = <<>>
    /\ resolved' = [n \in SecretNames |-> 0]
    /\ aws_calls' = [n \in SecretNames |-> 0]
    /\ env_calls' = [n \in SecretNames |-> 0]
    /\ UNCHANGED <<environ, sec_pc, sec_name, sec_region, sec_secret, sec_ret, sec_hit,
                   sec_seen, sec_lookups>>

\* The process environment changes: os.environ[key] = raw, or del os.environ[key].
set_environ(key, raw) ==
    /\ environ[key] # raw
    /\ environ' = [environ EXCEPT ![key] = raw]
    /\ UNCHANGED <<_cache, sec_pc, sec_name, sec_region, sec_secret, sec_ret, sec_hit,
                   sec_seen, sec_lookups, resolved, aws_calls, env_calls>>

\* What a step of caller t inside get_secret leaves in the history: a step
\* from line 58 or line 64 to the return has written _cache[secret_name]
\* (secrets.py:59, 64).
observe_step(t) ==
    LET name == sec_name[t]
        wrote == sec_pc[t] \in {"l58", "l64"} /\ sec_pc'[t] = "done"
    IN /\ populated_by' =
            IF wrote THEN [populated_by EXCEPT ![name] = sec_region[t]] ELSE populated_by
       /\ stale_names' =
            IF wrote
            THEN IF sec_stale[t] THEN stale_names \cup {name} ELSE stale_names \ {name}
            ELSE stale_names
       /\ sec_stale' = IF sec_pc'[t] = "idle" THEN [sec_stale EXCEPT ![t] = FALSE]
                       ELSE sec_stale
       /\ before_clear' =
            IF sec_pc'[t] = "idle"
            THEN [n \in DOMAIN before_clear \ {name} |-> before_clear[n]]
            ELSE before_clear

\* What clear_cache() leaves in the history (secrets.py:68-71): the mapping it
\* emptied, and which callers are between a lookup that returned a value
\* (secrets.py:57, 63) and the write of that value (secrets.py:59, 64).
observe_clear ==
    /\ before_clear' = _cache
    /\ populated_by' = [n \in SecretNames |-> ""]
    /\ stale_names' = {}
    /\ sec_stale' = [t \in Callers |->
            \/ sec_stale[t]
            \/ sec_pc[t] = "l64"
            \/ sec_pc[t] = "l58" /\ sec_secret[t] # SecNone]

\* No other caller is inside get_secret, and none holds an uncollected result.
OthersIdle(t) == \A u \in Callers \ {t} : sec_pc[u] = "idle"
AllIdle == \A u \in Callers : sec_pc[u] = "idle"

(***************************************************************************)
(* The shared async Redis connection, redis_client.py.  A connection is    *)
(* the record of the arguments aioredis.from_url received, of how often    *)
(* aclose() was called on it and of whether an aclose() has completed; it  *)
(* is identified by its position in conns.  The url argument ranges over   *)
(* None and non-empty URLs, REDIS_URL over unset and a non-empty URL.      *)
(***************************************************************************)
Tasks == {"k1", "k2"}

\* `_redis is None`
NoConn == 0

\* url=None
NoUrl == "<None>"

DEFAULT_REDIS_URL == "redis://localhost:6379/0"

UrlArgs == {NoUrl, "redis://explicit:6379/2"}

RedisEnvValues == {Unset, "redis://custom:6380/1"}

\* os.getenv("REDIS_URL", DEFAULT_REDIS_URL)
getenv_redis_url == IF redis_env = Unset THEN DEFAULT_REDIS_URL ELSE redis_env

\* os.getenv("REDIS_URL", DEFAULT_REDIS_URL) or url
resolved_url_env_first(url) ==
    IF redis_env # Unset THEN redis_env
    ELSE IF url # NoUrl THEN url ELSE DEFAULT_REDIS_URL

\* `url or os.getenv("REDIS_URL", DEFAULT_REDIS_URL)` (redis_client.py:52)
resolved_url(url) == IF url # NoUrl THEN url ELSE getenv_redis_url

\* aioredis.from_url(resolved_url, decode_responses=decode_responses)
from_url(url, decode_responses) ==
    [url |-> url, decode_responses |-> decode_responses, aclose |-> 0, closed |-> FALSE]

NoCall == [op |-> "", url |-> NoUrl, decode_responses |-> TRUE]
GetCall(url, decode_responses) ==
    [op |-> "get_async_redis", url |-> url, decode_responses |-> decode_responses]
CloseCall == [op |-> "close_redis", url |-> NoUrl, decode_responses |-> TRUE]

NoFirst == [set |-> FALSE, url |-> NoUrl, decode_responses |-> TRUE, env |-> Unset]

redis_idle ==
    /\ _redis = NoConn
    /\ conns = <<>>
    /\ redis_env = Unset
    /\ redis_pc = [k \in Tasks |-> "unused"]
    /\ redis_args = [k \in Tasks |-> NoCall]
    /\ redis_ret = [k \in Tasks |-> NoConn]
    /\ redis_closing = [k \in Tasks |-> NoConn]
    /\ redis_first = NoFirst
    /\ redis_created = 0
    /\ redis_returned = {}

\* get_async_redis(url, decode_responses) (redis_client.py:33-55).  The body
\* has no await: the coroutine runs from call to return without suspension.
get_async_redis(k, url, decode_responses) ==
    /\ redis_pc[k] = "idle"
    /\ _redis = NoConn => Len(conns) < MaxConns
    /\ IF _redis = NoConn
       THEN /\ conns' = Append(conns, from_url(resolved_url(url), decode_responses))
            /\ _redis' = Len(conns) + 1
            /\ redis_created' = redis_created + 1
       ELSE UNCHANGED <<conns, _redis, redis_created>>
    /\ redis_ret' = [redis_ret EXCEPT ![k] = _redis']
    /\ redis_returned' = redis_returned \cup {_redis'}
    /\ redis_first' =
         IF redis_first.set THEN redis_first
         ELSE [set |-> TRUE, url |-> url, decode_responses |-> decode_responses,
               env |-> redis_env]
    /\ redis_args' = [redis_args EXCEPT ![k] = GetCall(url, decode_responses)]
    /\ redis_pc' = [redis_pc EXCEPT ![k] = "done"]
    /\ UNCHANGED <<redis_env, redis_closing>>

\* close_redis() up to its await: `if _redis is not None: await _redis.aclose()`
\* (redis_client.py:75-76)
close_redis_l75(k) ==
    /\ redis_pc[k] = "idle"
    /\ redis_args' = [redis_args EXCEPT ![k] = CloseCall]
    /\ IF _redis # NoConn
       THEN /\ conns' = [conns EXCEPT ![_redis].aclose = @ + 1]
            /\ redis_closing' = [redis_closing EXCEPT ![k] = _redis]
            /\ redis_pc' = [redis_pc EXCEPT ![k] = "l76"]
       ELSE /\ redis_pc' = [redis_pc EXCEPT ![k] = "done"]
            /\ UNCHANGED <<conns, redis_closing>>
    /\ UNCHANGED <<_redis, redis_env, redis_ret, redis_first, redis_created, redis_returned>>

\* `_redis = None` and nothing more, the connection staying where it is
close_redis_l77_no_reset(k) ==
    /\ redis_pc[k] = "l76"
    /\ conns' = [conns EXCEPT ![redis_closing[k]].closed = TRUE]
    /\ redis_pc' = [redis_pc EXCEPT ![k] = "done"]
    /\ redis_first' = NoFirst
    /\ redis_created' = 0
    /\ redis_returned' = {}
    /\ UNCHANGED <<_redis, redis_env, redis_args, redis_ret, redis_closing>>

\* close_redis() after its await: aclose() has completed, `_redis = None`
\* (redis_client.py:77)
close_redis_l77(k) ==
    /\ redis_pc[k] = "l76"
    /\ conns' = [conns EXCEPT ![redis_closing[k]].closed = TRUE]
    /\ _redis' = NoConn
    /\ redis_pc' = [redis_pc EXCEPT ![k] = "done"]
    /\ redis_first' = NoFirst
    /\ redis_created' = 0
    /\ redis_returned' = {}
    /\ UNCHANGED <<redis_env, redis_args, redis_ret, redis_closing>>

\* The coroutine has returned and its task is free for its next call.
redis_return(k) ==
    /\ redis_pc[k] = "done"
    /\ redis_pc' = [redis_pc EXCEPT ![k] = "idle"]
    /\ redis_args' = [redis_args EXCEPT ![k] = NoCall]
    /\ redis_ret' = [redis_ret EXCEPT ![k] = NoConn]
    /\ redis_closing' = [redis_closing EXCEPT ![k] = NoConn]
    /\ UNCHANGED <<_redis, conns, redis_env, redis_first, redis_created, redis_returned>>

\* The process environment changes at REDIS_URL.
redis_setenv(v) ==
    /\ redis_env # v
    /\ redis_env' = v
    /\ UNCHANGED <<_redis, conns, redis_pc, redis_args, redis_ret, redis_closing,
                   redis_first, redis_created, redis_returned>>

\* No other coroutine is inside a call or holds an uncollected result.
RedisOthersIdle(k) == \A j \in Tasks \ {k} : redis_pc[j] = "idle"
RedisAllIdle == \A j \in Tasks : redis_pc[j] = "idle"


(***************************************************************************)
(* Rate limiting, rate_limit.py.  A Limiter is identified by its position  *)
(* in limiters; what rate_limit(limit)(func) returns is func itself or     *)
(* func wrapped by the limit decorator of one Limiter.                     *)
(***************************************************************************)
Funcs == {"f", "g"}

\* `_limiter is None`
NoLimiter == 0

\* The config argument of setup_rate_limiting: None, or a RateLimitConfig
\* with its enabled flag (rate_limit.py:52-73, 111-112).
Configs ==
    { [given |-> FALSE, enabled |-> TRUE],
      [given |-> TRUE, enabled |-> TRUE],
      [given |-> TRUE, enabled |-> FALSE] }

\* The storage _try_redis_storage settles on (rate_limit.py:166-169, 196-228).
Storages == {"in-memory", "redis"}

\* Limiter(key_func=..., default_limits=[...], storage_uri=storage_uri)
Limiter(storage) == [storage |-> storage]

\* rate_limit(limit)(func) has not been evaluated / returned func itself
NotDecorated == -1
Passthrough == 0

\* setup_rate_limiting has not been called
NotCalled == -1
NoSetup == [called |-> FALSE, config |-> [given |-> FALSE, enabled |-> TRUE],
            handlers_before |-> 0, limiter_before |-> NoLimiter]

rl_idle ==
    /\ _SLOWAPI_AVAILABLE = TRUE
    /\ _limiter = NoLimiter
    /\ limiters = <<>>
    /\ app_state_limiter = NoLimiter
    /\ app_handlers = 0
    /\ decorated = [f \in Funcs |-> NotDecorated]
    /\ setup_ret = NotCalled
    /\ setup_last = NoSetup

\* resolved_enabled taken as True whatever the config says
resolved_enabled_ignores_config(config) == TRUE

\* resolved_enabled (rate_limit.py:152-159)
resolved_enabled(config) == IF config.given THEN config.enabled ELSE TRUE

\* get_limiter() (rate_limit.py:271-280)
get_limiter == _limiter

\* setup_rate_limiting(app, ..., config=config) (rate_limit.py:108-193)
setup_rate_limiting(config) ==
    /\ setup_last' = [called |-> TRUE, config |-> config,
                      handlers_before |-> app_handlers, limiter_before |-> _limiter]
    /\ IF ~_SLOWAPI_AVAILABLE \/ ~resolved_enabled(config)
       THEN /\ _limiter' = NoLimiter
            /\ setup_ret' = NoLimiter
            /\ UNCHANGED <<limiters, app_state_limiter, app_handlers>>
       ELSE /\ Len(limiters) < MaxLimiters
            /\ \E storage \in Storages : limiters' = Append(limiters, Limiter(storage))
            /\ app_state_limiter' = Len(limiters) + 1
            /\ app_handlers' = app_handlers + 1
            /\ _limiter' = Len(limiters) + 1
            /\ setup_ret' = Len(limiters) + 1
    /\ UNCHANGED <<_SLOWAPI_AVAILABLE, decorated>>

\* rate_limit(limit_string)(func) (rate_limit.py:231-268): the test of line
\* 262 is made when the decorator is applied.
rate_limit(func) ==
    /\ decorated[func] = NotDecorated
    /\ decorated' = [decorated EXCEPT ![func] =
            IF ~_SLOWAPI_AVAILABLE \/ _limiter = NoLimiter
            THEN Passthrough
            ELSE _limiter]
    /\ UNCHANGED <<_SLOWAPI_AVAILABLE, _limiter, limiters, app_state_limiter,
                   app_handlers, setup_ret, setup_last>>


(***************************************************************************)
(* Auth dependencies, auth.py.  A header value is the sequence of its      *)
(* pieces: a piece is a blank " ", a comma ",", or a maximal run of other  *)
(* characters; a role is the sequence of the pieces of its name, so that   *)
(* str.strip and str.split act on header values as they do on strings.     *)
(* The X-User-Email header takes no part in any decision and is left out.  *)
(***************************************************************************)
Missing == [present |-> FALSE, value |-> <<>>]
Present(value) == [present |-> TRUE, value |-> value]

\* request.headers.get(key, "")
headers_get(h) == IF h.present THEN h.value ELSE <<>>

Words == {"admin", "trader", "analyst"}

\* The sequences of at most MaxHeaderLen pieces that are the pieces of a
\* string: two runs of other characters are never adjacent.
HeaderValues ==
    { v \in UNION { [1 .. n -> {" ", ","} \cup Words] : n \in 0 .. MaxHeaderLen } :
        \A i \in 1 .. Len(v) - 1 : ~(v[i] \in Words /\ v[i + 1] \in Words) }

Requests ==
    [ id : {Missing, Present(<<>>), Present(<<" ">>), Present(<<"u1">>),
            Present(<<" ", "u1", " ">>)},
      roles : {Missing} \cup { Present(v) : v \in HeaderValues } ]

\* The arguments of require_role(...) and of require_permission(...)
RoleArgs == { <<>>, << <<"trader">> >>, << <<"trader">>, <<"analyst">> >>, << <<"admin">> >> }
Permissions == {"data:read", "trading:execute", "ml:train"}
PermissionArgs == UNION { [1 .. n -> Permissions] : n \in 0 .. 2 }

\* The mapping _load_contracts builds from amptimal-contracts (auth.py:56),
\* or the ImportError of auth.py:58.
ContractsInstalled ==
    [ok |-> TRUE,
     map |-> ( <<"trader">> :> {"data:read", "trading:execute"}
               @@ <<"analyst">> :> {"data:read", "ml:train"} )]
ContractsMissing == [ok |-> FALSE, map |-> <<>>]

\* str.strip()
RECURSIVE strip(_)
strip(s) ==
    IF s = <<>> THEN s
    ELSE IF Head(s) = " " THEN strip(Tail(s))
    ELSE IF s[Len(s)] = " " THEN strip(SubSeq(s, 1, Len(s) - 1))
    ELSE s

\* str.split(",")
RECURSIVE split(_)
split(s) ==
    IF \A i \in 1 .. Len(s) : s[i] # ","
    THEN << s >>
    ELSE LET i == CHOOSE j \in 1 .. Len(s) :
                      s[j] = "," /\ \A l \in 1 .. j - 1 : s[l] # ","
         IN << SubSeq(s, 1, i - 1) >> \o split(SubSeq(s, i + 1, Len(s)))

NoUser == [user_id |-> <<>>, roles |-> <<>>]

\* get_current_user(request) (auth.py:100-124): the RequestUser, or the
\* HTTPException(401) of line 114.
get_current_user(req) ==
    LET user_id == strip(headers_get(req.id))
        roles_header == strip(headers_get(req.roles))
        segments == split(roles_header)
        roles == IF roles_header # <<>>
                 THEN SelectSeq([i \in 1 .. Len(segments) |-> strip(segments[i])],
                                LAMBDA r : r # <<>>)
                 ELSE <<>>
    IN IF user_id = <<>>
       THEN [ok |-> FALSE, user |-> NoUser]
       ELSE [ok |-> TRUE, user |-> [user_id |-> user_id, roles |-> roles]]

\* `x in a_list`
In(x, list) == \E i \in 1 .. Len(list) : list[i] = x

Returned200(user) == [status |-> 200, detail |-> <<>>, user |-> user]
HTTPException(status, detail) == [status |-> status, detail |-> detail, user |-> NoUser]

\* the dependency of require_role testing the required roles alone
require_role_no_admin_bypass(required_roles, req) ==
    LET cur == get_current_user(req)
    IN IF ~cur.ok THEN HTTPException(401, <<"Not authenticated">>)
       ELSE IF ~\E i \in 1 .. Len(required_roles) : In(required_roles[i], cur.user.roles)
       THEN HTTPException(403, <<"Insufficient role">>)
       ELSE Returned200(cur.user)

\* The dependency require_role(*required_roles) returns (auth.py:153-173)
require_role(required_roles, req) ==
    LET cur == get_current_user(req)
    IN IF ~cur.ok THEN HTTPException(401, <<"Not authenticated">>)
       ELSE IF In(<<"admin">>, cur.user.roles) THEN Returned200(cur.user)
       ELSE IF ~\E i \in 1 .. Len(required_roles) : In(required_roles[i], cur.user.roles)
       THEN HTTPException(403, <<"Insufficient role">>)
       ELSE Returned200(cur.user)

\* role_perms.get(role, set())
role_perms_get(role_perms, role) ==
    IF role \in DOMAIN role_perms THEN role_perms[role] ELSE {}

\* the dependency of require_permission asking for any one of the permissions
require_permission_any(required_permissions, req, role_perms) ==
    LET cur == get_current_user(req)
        user_permissions ==
            UNION { role_perms_get(role_perms, cur.user.roles[i]) :
                      i \in 1 .. Len(cur.user.roles) }
        missing == SelectSeq(required_permissions, LAMBDA q : q \notin user_permissions)
    IN IF ~cur.ok THEN HTTPException(401, <<"Not authenticated">>)
       ELSE IF In(<<"admin">>, cur.user.roles) THEN Returned200(cur.user)
       ELSE IF missing # <<>> /\ Len(missing) = Len(required_permissions)
       THEN HTTPException(403, <<"Missing permissions: ">> \o missing)
       ELSE Returned200(cur.user)

\* The dependency require_permission(*required_permissions) returns
\* (auth.py:206-233), given what _load_contracts() returned.
require_permission(required_permissions, req, role_perms) ==
    LET cur == get_current_user(req)
        user_permissions ==
            UNION { role_perms_get(role_perms, cur.user.roles[i]) :
                      i \in 1 .. Len(cur.user.roles) }
        missing == SelectSeq(required_permissions, LAMBDA q : q \notin user_permissions)
    IN IF ~cur.ok THEN HTTPException(401, <<"Not authenticated">>)
       ELSE IF In(<<"admin">>, cur.user.roles) THEN Returned200(cur.user)
       ELSE IF missing # <<>>
       THEN HTTPException(403, <<"Missing permissions: ">> \o missing)
       ELSE Returned200(cur.user)

auth_idle ==
    /\ auth_request = [id |-> Missing, roles |-> Missing]
    /\ auth_dep = [factory |-> "", roles |-> <<>>, permissions |-> <<>>]
    /\ auth_pc = "unused"
    /\ auth_response = HTTPException(0, <<>>)
    /\ contracts = ContractsMissing
    /\ _ROLE_PERMISSIONS = <<>>
    /\ _contracts_loaded = FALSE

\* The request reaches an endpoint that depends on require_role(...).
require_role_dependency ==
    /\ auth_pc = "request"
    /\ auth_dep.factory = "require_role"
    /\ auth_response' = require_role(auth_dep.roles, auth_request)
    /\ auth_pc' = "done"
    /\ UNCHANGED <<auth_request, auth_dep, contracts, _ROLE_PERMISSIONS, _contracts_loaded>>

\* The request reaches an endpoint that depends on require_permission(...).
\* _load_contracts() (auth.py:47-64) runs at line 214, for an authenticated
\* user who is not admin: the first call imports the mapping, or stores {}
\* on ImportError; later calls return `_ROLE_PERMISSIONS or {}`.
require_permission_dependency ==
    /\ auth_pc = "request"
    /\ auth_dep.factory = "require_permission"
    /\ LET cur == get_current_user(auth_request)
           loads == cur.ok /\ ~In(<<"admin">>, cur.user.roles)
           role_perms == IF _contracts_loaded THEN _ROLE_PERMISSIONS ELSE contracts.map
       IN /\ auth_response' = require_permission(auth_dep.permissions, auth_request, role_perms)
          /\ _contracts_loaded' = (_contracts_loaded \/ loads)
          /\ _ROLE_PERMISSIONS' = IF loads THEN role_perms ELSE _ROLE_PERMISSIONS
    /\ auth_pc' = "done"
    /\ UNCHANGED <<auth_request, auth_dep, contracts>>


(***************************************************************************)
(* Health app, health.py:51-115.  A dict is a function from its keys; all  *)
(* values are written as strings.  A callback is the outcome of calling    *)
(* it: the value it returns or the class of the exception it raises.       *)
(***************************************************************************)
EmptyDict == [k \in {} |-> ""]
NoException == ""

\* check_dependencies: None, or a callable returning a bool or raising
CheckCallbacks ==
    { [present |-> FALSE, raises |-> NoException, value |-> TRUE] }
    \cup { [present |-> TRUE, raises |-> NoException, value |-> b] : b \in BOOLEAN }
    \cup { [present |-> TRUE, raises |-> e, value |-> TRUE] :
             e \in {"RuntimeError", "KeyboardInterrupt"} }

\* get_status: a callable returning a Dict[str, Any] or raising
StatusCallbacks ==
    { [raises |-> NoException, value |-> d] :
        d \in { EmptyDict, "items_processed" :> "42",
                "status" :> "degraded" @@ "items_processed" :> "42" } }
    \cup { [raises |-> e, value |-> EmptyDict] : e \in {"RuntimeError", "KeyboardInterrupt"} }

\* What the client gets: a response, or the exception that left the endpoint.
JSONResponse(status_code, content) ==
    [status_code |-> status_code, content |-> content, raised |-> NoException]
Escaped(exc) == [status_code |-> 0, content |-> EmptyDict, raised |-> exc]
NoResponse == JSONResponse(0, EmptyDict)

\* {"status": "ready", "service": service_name, **status}: later keys win.
ready_body(service_name, status) ==
    status @@ ("status" :> "ready" @@ "service" :> service_name)

health_idle ==
    /\ health_app = [service_name |-> "", check_dependencies |-> CHOOSE c \in CheckCallbacks : ~c.present,
                     get_status |-> CHOOSE g \in StatusCallbacks : g.value = EmptyDict /\ g.raises = NoException]
    /\ health_pc = "unused"
    /\ health_endpoint = ""
    /\ deps_ok = TRUE
    /\ health_exc = NoException
    /\ health_calls = <<>>
    /\ health_response = NoResponse

\* A client sends GET path; the previous request has been answered.
health_request(path) ==
    /\ health_pc \in {"idle", "done"}
    /\ health_endpoint' = path
    /\ health_pc' = IF path = "/ready" THEN "l79" ELSE "l73"
    /\ deps_ok' = TRUE
    /\ health_exc' = NoException
    /\ health_calls' = <<>>
    /\ health_response' = NoResponse
    /\ UNCHANGED health_app

\* health(), health.py:71-73
health ==
    /\ health_pc = "l73"
    /\ health_response' =
           JSONResponse(200, "status" :> "healthy" @@ "service" :> health_app.service_name)
    /\ health_pc' = "done"
    /\ UNCHANGED <<health_app, health_endpoint, deps_ok, health_exc, health_calls>>

\* ready(), lines 79-81: deps_ok = True; if check_dependencies: deps_ok = check_dependencies()
ready_l79 ==
    /\ health_pc = "l79"
    /\ LET check == health_app.check_dependencies
       IN IF ~check.present
          THEN /\ deps_ok' = TRUE
               /\ health_pc' = "l83"
               /\ UNCHANGED <<health_exc, health_calls>>
          ELSE /\ health_calls' = Append(health_calls, "check_dependencies")
               /\ IF check.raises # NoException
                  THEN /\ health_exc' = check.raises
                       /\ health_pc' = "l99"
                       /\ UNCHANGED deps_ok
                  ELSE /\ deps_ok' = check.value
                       /\ health_pc' = "l83"
                       /\ UNCHANGED health_exc
    /\ UNCHANGED <<health_app, health_endpoint, health_response>>

\* ready(), lines 83-98
ready_l83 ==
    /\ health_pc = "l83"
    /\ IF deps_ok
       THEN LET get_status == health_app.get_status
            IN /\ health_calls' = Append(health_calls, "get_status")
               /\ IF get_status.raises # NoException
                  THEN /\ health_exc' = get_status.raises
                       /\ health_pc' = "l99"
                       /\ UNCHANGED health_response
                  ELSE /\ health_response' =
                             JSONResponse(200, ready_body(health_app.service_name, get_status.value))
                       /\ health_pc' = "done"
                       /\ UNCHANGED health_exc
       ELSE /\ health_response' =
                  JSONResponse(503,
                      "status" :> "not_ready" @@ "service" :> health_app.service_name
                      @@ "reason" :> "dependencies_unavailable")
            /\ health_pc' = "done"
            /\ UNCHANGED <<health_exc, health_calls>>
    /\ UNCHANGED <<health_app, health_endpoint, deps_ok>>

\* ready(), lines 99-108: `except Exception as e`; any other exception leaves
\* the endpoint.  str(e) is written as the name of the class.
ready_l99 ==
    /\ health_pc = "l99"
    /\ health_response' =
           IF "Exception" \in Mro(health_exc)
           THEN JSONResponse(503,
                    "status" :> "not_ready" @@ "service" :> health_app.service_name
                    @@ "error" :> health_exc)
           ELSE Escaped(health_exc)
    /\ health_pc' = "done"
    /\ UNCHANGED <<health_app, health_endpoint, deps_ok, health_exc, health_calls>>


(***************************************************************************)
(* Specifications                                                          *)
(***************************************************************************)
InitBackoff ==
    /\ cb_attempt \in 0 .. MaxBackoffAttempt
    /\ cb_max \in BackoffCeilings
    /\ cb_base \in -MaxBase .. MaxBase
    /\ cb_result = 0
    /\ cb_pc = "args"
    /\ retry_idle
    /\ sec_idle
    /\ redis_idle
    /\ rl_idle
    /\ auth_idle
    /\ health_idle

NextBackoff == cb_apply /\ UNCHANGED <<retry_vars, sec_vars, sec_obs, redis_vars, rl_vars, auth_vars, health_vars>>

SpecBackoff == InitBackoff /\ [][NextBackoff]_vars

InitRetry ==
    /\ policy \in Policies
    /\ outcomes = <<>>
    /\ pc = [m \in Modes |-> "idle"]
    /\ attempt = [m \in Modes |-> 0]
    /\ last_exception = [m \in Modes |-> PyNone]
    /\ delay = [m \in Modes |-> 0]
    /\ events = [m \in Modes |-> <<>>]
    /\ result = [m \in Modes |-> Pending]
    /\ cb_idle
    /\ sec_idle
    /\ redis_idle
    /\ rl_idle
    /\ auth_idle
    /\ health_idle

RetryOnly == UNCHANGED <<cb_vars, sec_vars, sec_obs, redis_vars, rl_vars, auth_vars, health_vars>>

NextRetry ==
    \/ wrapper_call /\ RetryOnly
    \/ wrapper_attempt /\ RetryOnly
    \/ wrapper_on_retry /\ RetryOnly
    \/ wrapper_sleep /\ RetryOnly
    \/ wrapper_exhausted /\ RetryOnly
    \/ async_call /\ RetryOnly
    \/ async_attempt /\ RetryOnly
    \/ async_on_retry /\ RetryOnly
    \/ async_sleep /\ RetryOnly
    \/ async_exhausted /\ RetryOnly

SpecRetry == InitRetry /\ [][NextRetry]_vars

\* The same calls, run to their end: time.sleep and asyncio.sleep return, the
\* operation and the observer return or raise, so a wrapper that can take
\* its next step takes it.
SpecRetryFair == SpecRetry /\ WF_vars(NextRetry)

\* get_secret and clear_cache called one after another, from any caller, with
\* the environment changing between calls.
InitSecrets ==
    /\ _cache = <<>>
    /\ environ \in [EnvKeys -> RawStrings \cup {Unset}]
    /\ sec_pc = [t \in Callers |-> "idle"]
    /\ sec_locals_idle
    /\ resolved = [n \in SecretNames |-> 0]
    /\ aws_calls = [n \in SecretNames |-> 0]
    /\ env_calls = [n \in SecretNames |-> 0]
    /\ sec_obs_idle
    /\ cb_idle
    /\ retry_idle
    /\ redis_idle
    /\ rl_idle
    /\ auth_idle
    /\ health_idle

SecretsOnly == UNCHANGED <<cb_vars, retry_vars, redis_vars, rl_vars, auth_vars, health_vars>>

NextSecrets ==
    \/ \E t \in Callers, name \in SecretNames, region \in Regions :
          /\ OthersIdle(t) /\ get_secret_call(t, name, region)
          /\ UNCHANGED sec_obs /\ SecretsOnly
    \/ \E t \in Callers : OthersIdle(t) /\ get_secret_l53(t) /\ observe_step(t) /\ SecretsOnly
    \/ \E t \in Callers : OthersIdle(t) /\ get_secret_l54(t) /\ observe_step(t) /\ SecretsOnly
    \/ \E t \in Callers : OthersIdle(t) /\ get_secret_l57(t) /\ observe_step(t) /\ SecretsOnly
    \/ \E t \in Callers : OthersIdle(t) /\ get_secret_l58(t) /\ observe_step(t) /\ SecretsOnly
    \/ \E t \in Callers : OthersIdle(t) /\ get_secret_l63(t) /\ observe_step(t) /\ SecretsOnly
    \/ \E t \in Callers : OthersIdle(t) /\ get_secret_l64(t) /\ observe_step(t) /\ SecretsOnly
    \/ \E t \in Callers : OthersIdle(t) /\ get_secret_done(t) /\ observe_step(t) /\ SecretsOnly
    \/ AllIdle /\ clear_cache /\ observe_clear /\ SecretsOnly
    \/ \E key \in EnvKeys, raw \in RawStrings \cup {Unset} :
          AllIdle /\ set_environ(key, raw) /\ UNCHANGED sec_obs /\ SecretsOnly

SpecSecrets == InitSecrets /\ [][NextSecrets]_vars

\* get_secret("a/b", region) and clear_cache() called from two threads with no
\* order between their steps: the module takes no lock (secrets.py:26-71), so
\* a step of one caller may follow any step of the other, and clear_cache()
\* may run while a get_secret is between its lines.
InitSecretsConc ==
    /\ _cache = <<>>
    /\ environ \in [EnvKeys -> {Unset, "plain"}]
    /\ sec_pc = [t \in Callers |-> "idle"]
    /\ sec_locals_idle
    /\ resolved = [n \in SecretNames |-> 0]
    /\ aws_calls = [n \in SecretNames |-> 0]
    /\ env_calls = [n \in SecretNames |-> 0]
    /\ sec_obs_idle
    /\ cb_idle
    /\ retry_idle
    /\ redis_idle
    /\ rl_idle
    /\ auth_idle
    /\ health_idle

NextSecretsConc ==
    \/ \E t \in Callers, region \in Regions :
          /\ get_secret_call(t, <<"a", "/", "b">>, region)
          /\ UNCHANGED sec_obs /\ SecretsOnly
    \/ \E t \in Callers : get_secret_l53(t) /\ observe_step(t) /\ SecretsOnly
    \/ \E t \in Callers : get_secret_l54(t) /\ observe_step(t) /\ SecretsOnly
    \/ \E t \in Callers : get_secret_l57(t) /\ observe_step(t) /\ SecretsOnly
    \/ \E t \in Callers : get_secret_l58(t) /\ observe_step(t) /\ SecretsOnly
    \/ \E t \in Callers : get_secret_l63(t) /\ observe_step(t) /\ SecretsOnly
    \/ \E t \in Callers : get_secret_l64(t) /\ observe_step(t) /\ SecretsOnly
    \/ \E t \in Callers : get_secret_done(t) /\ observe_step(t) /\ SecretsOnly
    \/ clear_cache /\ observe_clear /\ SecretsOnly

SpecSecretsConc == InitSecretsConc /\ [][NextSecretsConc]_vars

\* The same concurrent get_secret calls with no clear_cache() among them.
NextSecretsRace ==
    \/ \E t \in Callers, region \in Regions :
          /\ get_secret_call(t, <<"a", "/", "b">>, region)
          /\ UNCHANGED sec_obs /\ SecretsOnly
    \/ \E t \in Callers : get_secret_l53(t) /\ observe_step(t) /\ SecretsOnly
    \/ \E t \in Callers : get_secret_l54(t) /\ observe_step(t) /\ SecretsOnly
    \/ \E t \in Callers : get_secret_l57(t) /\ observe_step(t) /\ SecretsOnly
    \/ \E t \in Callers : get_secret_l58(t) /\ observe_step(t) /\ SecretsOnly
    \/ \E t \in Callers : get_secret_l63(t) /\ observe_step(t) /\ SecretsOnly
    \/ \E t \in Callers : get_secret_l64(t) /\ observe_step(t) /\ SecretsOnly
    \/ \E t \in Callers : get_secret_done(t) /\ observe_step(t) /\ SecretsOnly

SpecSecretsRace == InitSecretsConc /\ [][NextSecretsRace]_vars

\* get_async_redis and close_redis awaited one after another, with REDIS_URL
\* changing between calls.
InitRedis ==
    /\ _redis = NoConn
    /\ conns = <<>>
    /\ redis_env \in RedisEnvValues
    /\ redis_pc = [k \in Tasks |-> "idle"]
    /\ redis_args = [k \in Tasks |-> NoCall]
    /\ redis_ret = [k \in Tasks |-> NoConn]
    /\ redis_closing = [k \in Tasks |-> NoConn]
    /\ redis_first = NoFirst
    /\ redis_created = 0
    /\ redis_returned = {}
    /\ cb_idle
    /\ retry_idle
    /\ sec_idle
    /\ rl_idle
    /\ auth_idle
    /\ health_idle

RedisOnly == UNCHANGED <<cb_vars, retry_vars, sec_vars, sec_obs, rl_vars, auth_vars, health_vars>>

NextRedis ==
    \/ \E k \in Tasks, url \in UrlArgs, decode_responses \in BOOLEAN :
          RedisOthersIdle(k) /\ get_async_redis(k, url, decode_responses) /\ RedisOnly
    \/ \E k \in Tasks : RedisOthersIdle(k) /\ close_redis_l75(k) /\ RedisOnly
    \/ \E k \in Tasks : RedisOthersIdle(k) /\ close_redis_l77(k) /\ RedisOnly
    \/ \E k \in Tasks : RedisOthersIdle(k) /\ redis_return(k) /\ RedisOnly
    \/ \E v \in RedisEnvValues : RedisAllIdle /\ redis_setenv(v) /\ RedisOnly

SpecRedis == InitRedis /\ [][NextRedis]_vars

\* get_async_redis and close_redis coroutines of concurrent tasks on one event
\* loop: a coroutine runs until its next await, so close_redis can be
\* suspended at `await _redis.aclose()` while other coroutines run.
NextRedisConc ==
    \/ \E k \in Tasks, url \in UrlArgs, decode_responses \in BOOLEAN :
          get_async_redis(k, url, decode_responses) /\ RedisOnly
    \/ \E k \in Tasks : close_redis_l75(k) /\ RedisOnly
    \/ \E k \in Tasks : close_redis_l77(k) /\ RedisOnly
    \/ \E k \in Tasks : redis_return(k) /\ RedisOnly
    \/ \E v \in RedisEnvValues : redis_setenv(v) /\ RedisOnly

SpecRedisConc == InitRedis /\ [][NextRedisConc]_vars

\* setup_rate_limiting and rate_limit called in any order on one app, in a
\* process where slowapi is installed or is not.
InitRateLimit ==
    /\ _SLOWAPI_AVAILABLE \in BOOLEAN
    /\ _limiter = NoLimiter
    /\ limiters = <<>>
    /\ app_state_limiter = NoLimiter
    /\ app_handlers = 0
    /\ decorated = [f \in Funcs |-> NotDecorated]
    /\ setup_ret = NotCalled
    /\ setup_last = NoSetup
    /\ cb_idle
    /\ retry_idle
    /\ sec_idle
    /\ redis_idle
    /\ auth_idle
    /\ health_idle

RateLimitOnly == UNCHANGED <<cb_vars, retry_vars, sec_vars, sec_obs, redis_vars, auth_vars, health_vars>>

NextRateLimit ==
    \/ \E config \in Configs : setup_rate_limiting(config) /\ RateLimitOnly
    \/ \E func \in Funcs : rate_limit(func) /\ RateLimitOnly

SpecRateLimit == InitRateLimit /\ [][NextRateLimit]_vars

\* One request through a dependency built by require_role or by
\* require_permission, in a process where amptimal-contracts is installed or
\* not and _load_contracts() has run before or not.
InitAuth ==
    /\ auth_request \in Requests
    /\ auth_dep \in
          { [factory |-> "require_role", roles |-> r, permissions |-> <<>>] : r \in RoleArgs }
          \cup { [factory |-> "require_permission", roles |-> <<>>, permissions |-> q] :
                    q \in PermissionArgs }
    /\ auth_pc = "request"
    /\ auth_response = HTTPException(0, <<>>)
    /\ contracts \in {ContractsInstalled, ContractsMissing}
    /\ _contracts_loaded \in BOOLEAN
    /\ _ROLE_PERMISSIONS = IF _contracts_loaded THEN contracts.map ELSE <<>>
    /\ cb_idle
    /\ retry_idle
    /\ sec_idle
    /\ redis_idle
    /\ rl_idle
    /\ health_idle

AuthOnly == UNCHANGED <<cb_vars, retry_vars, sec_vars, sec_obs, redis_vars, rl_vars, health_vars>>

NextAuth ==
    \/ require_role_dependency /\ AuthOnly
    \/ require_permission_dependency /\ AuthOnly

SpecAuth == InitAuth /\ [][NextAuth]_vars

\* An app built by create_health_app, serving one request after another.
InitHealth ==
    /\ health_app \in [ service_name : {"test-service", "pr-reviewer"},
                        check_dependencies : CheckCallbacks,
                        get_status : StatusCallbacks ]
    /\ health_pc = "idle"
    /\ health_endpoint = ""
    /\ deps_ok = TRUE
    /\ health_exc = NoException
    /\ health_calls = <<>>
    /\ health_response = NoResponse
    /\ cb_idle
    /\ retry_idle
    /\ sec_idle
    /\ redis_idle
    /\ rl_idle
    /\ auth_idle

HealthOnly == UNCHANGED <<cb_vars, retry_vars, sec_vars, sec_obs, redis_vars, rl_vars, auth_vars>>

NextHealth ==
    \/ (\E path \in {"/health", "/ready"} : health_request(path)) /\ HealthOnly
    \/ health /\ HealthOnly
    \/ ready_l79 /\ HealthOnly
    \/ ready_l83 /\ HealthOnly
    \/ ready_l99 /\ HealthOnly

SpecHealth == InitHealth /\ [][NextHealth]_vars


(***************************************************************************)
(* Vocabulary of the properties of the retry executor                      *)
(***************************************************************************)
Done(m) == pc[m] = "done"

EventsOf(m, ev) == SelectSeq(events[m], LAMBDA e : e.ev = ev)

\* How many times mode m has invoked the operation.
Calls(m) == Len(EventsOf(m, "call"))

\* The failure kinds a class of retryable_kinds stands for: itself and the
\* kinds derived from it.
KindsOf(class) ==
    CASE class = "Exception" -> {"Exception", "ValueError", "TypeError", "RuntimeError"}
      [] class = "BaseException" ->
            {"BaseException", "Exception", "ValueError", "TypeError", "RuntimeError",
             "KeyboardInterrupt"}
      [] OTHER -> {class}

RetryableKinds == UNION { KindsOf(c) : c \in policy.retryable_exceptions }

\* The j-th invocation failed with a kind in retryable_kinds.
RetryableFailure(j) ==
    /\ j \in 1 .. Len(outcomes)
    /\ ~outcomes[j].ok
    /\ outcomes[j].obj.kind \in RetryableKinds

\* The j-th invocation failed with a kind outside retryable_kinds.
NonRetryableFailure(j) ==
    /\ j \in 1 .. Len(outcomes)
    /\ ~outcomes[j].ok
    /\ outcomes[j].obj.kind \notin RetryableKinds

\* The call of mode m ended with the observer's own failure.
ObserverRaised(m) == \E i \in policy.on_retry.raises_at : result[m] = Raised(ObserverFailure(i))

\* min(b^i, ceiling) in the mathematical sense, with b^0 = 1
Power(b, i) == IF i = 0 THEN 1 ELSE b ^ i
MinOf(x, y) == CHOOSE z \in {x, y} : z <= x /\ z <= y
CappedPower(b, i, ceiling) == MinOf(Power(b, i), ceiling)

\* The on_retry calls an executor makes while k-1 retryable failures are retried.
ExpectedOnRetry(k) == [i \in 1 .. k - 1 |-> OnRetryEvent(outcomes[i].obj, i - 1)]

(***************************************************************************)
(* C1.  An operation that fails with a retryable kind on every attempt is  *)
(* invoked exactly max_attempts = N >= 1 times and the failure object of   *)
(* the N-th invocation reaches the caller; with N = 1 there is no on_retry *)
(* call and no sleep.  (Stated for runs in which the observer, if any,     *)
(* returns normally.)                                                      *)
(***************************************************************************)
C1_ExhaustionRaisesLastFailure ==
    \A m \in Modes :
        ( /\ Done(m)
          /\ policy.max_attempts >= 1
          /\ ~ObserverRaised(m)
          /\ \A j \in 1 .. Calls(m) : RetryableFailure(j) )
        => /\ Calls(m) = policy.max_attempts
           /\ result[m] = Raised(outcomes[policy.max_attempts].obj)
           /\ policy.max_attempts = 1 => events[m] = <<CallEvent(1)>>

(***************************************************************************)
(* C2.  An operation that fails retryably on attempts 1..k-1 and succeeds  *)
(* on attempt k <= N is invoked exactly k times, its k-th result is        *)
(* returned, and on_retry is called exactly k-1 times, with indices        *)
(* 0..k-2 in order, each with the failure of the attempt just made.        *)
(***************************************************************************)
C2_SuccessOnAttemptK ==
    \A m \in Modes : \A k \in 1 .. Len(outcomes) :
        ( /\ Done(m)
          /\ k <= policy.max_attempts
          /\ outcomes[k].ok
          /\ \A j \in 1 .. k - 1 : RetryableFailure(j)
          /\ policy.on_retry.raises_at \cap (0 .. k - 2) = {} )
        => /\ Calls(m) = k
           /\ result[m] = Returned(outcomes[k].obj)
           /\ EventsOf(m, "on_retry") =
                 IF policy.on_retry.present THEN ExpectedOnRetry(k) ELSE <<>>

C2_Witness ==
    /\ Done("sync") /\ Done("async")
    /\ policy.on_retry.present
    /\ Len(outcomes) = 3
    /\ outcomes[3].ok
    /\ RetryableFailure(1) /\ RetryableFailure(2)
    /\ Len(EventsOf("async", "on_retry")) = 2

(***************************************************************************)
(* C3.  An operation whose first failure has a kind outside                *)
(* retryable_kinds is invoked exactly once whatever max_attempts is: the   *)
(* failure propagates at once, with no on_retry call and no sleep.         *)
(***************************************************************************)
C3_NonRetryablePropagatesAtOnce ==
    \A m \in Modes :
        (Calls(m) >= 1 /\ NonRetryableFailure(1))
        => /\ events[m] = <<CallEvent(1)>>
           /\ Done(m)
           /\ result[m] = Raised(outcomes[1].obj)

C3_Witness ==
    /\ policy.max_attempts = MaxAttempts
    /\ policy.on_retry.present
    /\ NonRetryableFailure(1)
    /\ outcomes[1].obj.kind = "TypeError"
    /\ Done("sync") /\ Done("async")
    /\ Calls("sync") = 1 /\ Calls("async") = 1


(***************************************************************************)
(* C4.  calculate_backoff(attempt, max_backoff, base) equals               *)
(* min(base^attempt, max_backoff) for every attempt >= 0 and every integer *)
(* base and ceiling applied; with base 2 and ceiling 300, attempts 0..4    *)
(* give 1, 2, 4, 8, 16 and every attempt >= 9 gives 300.                   *)
(***************************************************************************)
C4_BackoffIsCappedPower ==
    cb_pc = "returned" =>
        /\ cb_result = CappedPower(cb_base, cb_attempt, cb_max)
        /\ (cb_base = 2 /\ cb_max = 300) =>
              /\ cb_attempt \in 0 .. 4 => cb_result = <<1, 2, 4, 8, 16>>[cb_attempt + 1]
              /\ cb_attempt >= 9 => cb_result = 300

C4_Witness ==
    /\ cb_pc = "returned"
    /\ cb_base = 2 /\ cb_max = 300 /\ cb_attempt = 9
    /\ cb_result = 300

C6_Expected(j) ==
    (IF policy.on_retry.present THEN <<OnRetryEvent(outcomes[j].obj, j - 1)>> ELSE <<>>)
    \o << SleepEvent(CappedPower(2, j - 1, policy.max_backoff_seconds)), CallEvent(j + 1) >>

C6_IsPrefix(s, t) == Len(s) <= Len(t) /\ s = SubSeq(t, 1, Len(s))

C6_RetrySequenceInOrder ==
    \A m \in Modes : \A p \in 1 .. Len(events[m]) :
        LET e == events[m][p]
            rest == SubSeq(events[m], p + 1, Len(events[m]))
        IN /\ (e.ev = "call" /\ p > 1) => events[m][p - 1].ev = "sleep"
           /\ (e.ev = "call" /\ p = 1) => e.n = 1
           /\ (e.ev = "call" /\ RetryableFailure(e.n) /\ e.n < policy.max_attempts) =>
                 /\ C6_IsPrefix(rest, C6_Expected(e.n)) \/ C6_IsPrefix(C6_Expected(e.n), rest)
                 /\ (Done(m) /\ ~ObserverRaised(m)) => C6_IsPrefix(C6_Expected(e.n), rest)

C6_Witness ==
    /\ policy.on_retry.present
    /\ policy.max_attempts = 3
    /\ \A m \in Modes :
         /\ Done(m)
         /\ Len(events[m]) = 7
         /\ events[m][2].ev = "on_retry" /\ events[m][3].ev = "sleep" /\ events[m][4].ev = "call"
         /\ events[m][5].ev = "on_retry" /\ events[m][6].ev = "sleep" /\ events[m][7].ev = "call"

(***************************************************************************)
(* C7.  For the same policy and the same outcomes of the operation, the    *)
(* decorated call and the async call make the same invocations, the same   *)
(* on_retry calls and the same delays in the same order, and end with the  *)
(* same returned value or the same propagated failure.                     *)
(***************************************************************************)
C7_SyncAsyncSameContract ==
    /\ C6_IsPrefix(events["async"], events["sync"])
    /\ (Done("sync") /\ Done("async")) =>
          /\ events["async"] = events["sync"]
          /\ result["async"] = result["sync"]

C7_Witness ==
    /\ Done("sync") /\ Done("async")
    /\ policy.on_retry.present
    /\ policy.max_backoff_seconds = 1
    /\ Len(EventsOf("async", "sleep")) = 2
    /\ EventsOf("async", "sleep")[2].n = 1
    /\ Calls("async") = 3
    /\ result["async"].type = "raise"

(***************************************************************************)
(* C8.  If on_retry raises, the executor does not catch it: the observer's *)
(* failure reaches the caller and the retry sequence is aborted, with no   *)
(* invocation and no suspension after the raising on_retry call.           *)
(***************************************************************************)
C8_ObserverFailurePropagates ==
    \A m \in Modes : \A p \in 1 .. Len(events[m]) :
        (events[m][p].ev = "on_retry" /\ events[m][p].n \in policy.on_retry.raises_at)
        => /\ p = Len(events[m])
           /\ Done(m)
           /\ result[m] = Raised(ObserverFailure(events[m][p].n))

C8_Witness ==
    /\ policy.max_attempts = 3
    /\ policy.on_retry.raises_at = {1}
    /\ \A m \in Modes :
         /\ Done(m)
         /\ Calls(m) = 2
         /\ Len(EventsOf(m, "sleep")) = 1
         /\ events[m][Len(events[m])].ev = "on_retry"
         /\ result[m] = Raised(ObserverFailure(1))


(***************************************************************************)
(* C9.  Once a name is a cache key, get_secret(name) returns the cached    *)
(* value and invokes neither _fetch_from_aws nor _fetch_from_env; two      *)
(* consecutive resolves of a name invoke the primary source exactly once   *)
(* in total.                                                               *)
(***************************************************************************)
C9_CachedNameSkipsSources ==
    /\ \A t \in Callers :
         \* a source is consulted only for a name that is no cache key
         /\ sec_pc[t] \in {"l57", "l58", "l63", "l64"} =>
               sec_name[t] \notin DOMAIN _cache /\ ~sec_hit[t]
         \* a call that found the name returns the cached value, with no lookup
         /\ (sec_pc[t] = "done" /\ sec_hit[t]) =>
               /\ sec_ret[t] = SecReturned(sec_seen[t])
               /\ sec_seen[t] = _cache[sec_name[t]]
               /\ sec_lookups[t] = <<>>
    /\ \A n \in SecretNames :
         /\ aws_calls[n] <= 1
         /\ resolved[n] >= 1 => aws_calls[n] = 1 /\ n \in DOMAIN _cache

C9_Witness ==
    \E t \in Callers :
        /\ sec_pc[t] = "done"
        /\ sec_hit[t]
        /\ sec_ret[t] = SecReturned(SecVal("dict", "host=x"))
        /\ resolved[sec_name[t]] = 2
        /\ aws_calls[sec_name[t]] = 1
        /\ env_calls[sec_name[t]] = 0

(***************************************************************************)
(* C10.  Absence is cached: when neither source yields a value,            *)
(* get_secret stores None under the name and returns it, and every later   *)
(* get_secret of the name (until a clear) returns None without invoking    *)
(* either source, even if a source would now yield a value.                *)
(***************************************************************************)
C10_AbsenceIsCached ==
    \A t \in Callers :
        /\ ( /\ sec_pc[t] = "done"
             /\ sec_lookups[t] = << AwsLookup(sec_name[t], sec_region[t], SecNone),
                                    EnvLookup(sec_name[t], SecNone) >> )
           => /\ sec_ret[t] = SecReturned(SecNone)
              /\ sec_name[t] \in DOMAIN _cache
              /\ _cache[sec_name[t]] = SecNone
        /\ ( /\ sec_pc[t] \in {"l54", "l57", "l58", "l63", "l64", "done"}
             /\ sec_name[t] \in DOMAIN _cache
             /\ _cache[sec_name[t]] = SecNone )
           => /\ sec_pc[t] \in {"l54", "done"}
              /\ sec_pc[t] = "done" => sec_ret[t] = SecReturned(SecNone)
              /\ sec_hit[t] => sec_lookups[t] = <<>>
              /\ aws_calls[sec_name[t]] = 1 /\ env_calls[sec_name[t]] = 1

C10_Witness ==
    \E t \in Callers :
        /\ sec_pc[t] = "done"
        /\ sec_hit[t]
        /\ sec_ret[t] = SecReturned(SecNone)
        /\ sec_lookups[t] = <<>>
        /\ resolved[sec_name[t]] = 2
        /\ fetch_from_env(sec_name[t]) = SecVal("dict", "host=x")

(***************************************************************************)
(* C11.  A populated cache entry is never silently refreshed: whatever     *)
(* the sources would now return, no step but clear_cache changes or        *)
(* removes the entry of a name, and a get_secret of a name that has an     *)
(* entry returns that entry: the value the first resolution stored.        *)
(***************************************************************************)
C11_EntryChangesOnlyThroughClear ==
    [][ /\ \A n \in DOMAIN _cache :
             \/ n \in DOMAIN _cache' /\ _cache'[n] = _cache[n]
             \/ _cache' = <<>> /\ before_clear' = _cache
        /\ \A t \in Callers :
             ( /\ sec_pc[t] # "done"
               /\ sec_pc'[t] = "done"
               /\ sec_name[t] \in DOMAIN _cache )
             => sec_ret'[t] = SecReturned(_cache[sec_name[t]])
      ]_vars

\* The environment was "plain" when the first resolution fell through to it,
\* now holds a JSON object, and the second resolution still returns the first
\* value.
C11_Witness ==
    \E t \in Callers :
        /\ sec_pc[t] = "done"
        /\ sec_hit[t]
        /\ resolved[sec_name[t]] = 2
        /\ env_calls[sec_name[t]] = 1
        /\ sec_ret[t] = SecReturned(wrap_value("plain"))
        /\ fetch_from_env(sec_name[t]) = SecVal("dict", "host=x")

(***************************************************************************)
(* C12.  clear_cache() removes every entry, values and cached absences     *)
(* alike; the first get_secret of a name after it invokes _fetch_from_aws  *)
(* again (and _fetch_from_env if that yields nothing) and returns and      *)
(* caches what it has just looked up, not what was cached before.          *)
(***************************************************************************)
C12_FirstResolveLooksUp ==
    \A t \in Callers :
        (sec_pc[t] = "done" /\ resolved[sec_name[t]] = 1) =>
            LET looked == sec_lookups[t]
                name == sec_name[t]
            IN /\ ~sec_hit[t]
               /\ Len(looked) \in {1, 2}
               /\ looked[1].src = "aws" /\ looked[1].name = name
               /\ looked[1].val = SecNone <=> Len(looked) = 2
               /\ Len(looked) = 2 => looked[2].src = "env" /\ looked[2].name = name
               /\ sec_ret[t] = SecReturned(looked[Len(looked)].val)
               /\ name \in DOMAIN _cache
               /\ _cache[name] = looked[Len(looked)].val

C12_ClearThenLookUp ==
    /\ [](C12_FirstResolveLooksUp)
    /\ [][clear_cache => _cache' = <<>>]_vars

\* The name was cached as absent, the cache was cleared, and the next
\* get_secret of the name went to both sources and returned a value.
C12_Witness ==
    \E t \in Callers :
        /\ sec_pc[t] = "done"
        /\ resolved[sec_name[t]] = 1
        /\ sec_name[t] \in DOMAIN before_clear
        /\ before_clear[sec_name[t]] = SecNone
        /\ Len(sec_lookups[t]) = 2
        /\ sec_ret[t] = SecReturned(SecVal("dict", "host=x"))
        /\ _cache[sec_name[t]] = SecVal("dict", "host=x")

(***************************************************************************)
(* C13.  On a cache miss _fetch_from_aws is invoked first, with the name;  *)
(* a value it returns is cached and returned and _fetch_from_env is not    *)
(* invoked.  _fetch_from_env is invoked only after _fetch_from_aws         *)
(* yielded nothing, and its result, value or None, is what is cached and   *)
(* returned.                                                               *)
(***************************************************************************)
C13_PrimaryThenSecondary ==
    \A t \in Callers :
        LET name == sec_name[t]
            looked == sec_lookups[t]
            primary(v) == AwsLookup(name, sec_region[t], v)
            secondary(v) == EnvLookup(name, v)
        IN /\ sec_pc[t] \in {"l53", "l54", "l57"} => looked = <<>>
           /\ sec_pc[t] = "l58" => looked = << primary(sec_secret[t]) >>
           /\ sec_pc[t] = "l63" => looked = << primary(SecNone) >>
           /\ sec_pc[t] = "l64" => looked = << primary(SecNone), secondary(sec_secret[t]) >>
           /\ (sec_pc[t] = "done" /\ ~sec_hit[t]) =>
                 /\ \E v \in {sec_ret[t].val} :
                       \/ v # SecNone /\ looked = << primary(v) >>
                       \/ looked = << primary(SecNone), secondary(v) >>
                 /\ sec_ret[t].type = "return"
                 /\ name \in DOMAIN _cache
                 /\ _cache[name] = sec_ret[t].val

\* The primary source yielded nothing, the secondary a wrapped raw string.
C13_Witness ==
    \E t \in Callers :
        /\ sec_pc[t] = "done"
        /\ sec_lookups[t] = << AwsLookup(sec_name[t], sec_region[t], SecNone),
                               EnvLookup(sec_name[t], wrap_value("plain")) >>
        /\ sec_ret[t] = SecReturned(wrap_value("plain"))
        /\ _cache[sec_name[t]] = wrap_value("plain")

(***************************************************************************)
(* Vocabulary of the properties of the secret cache                        *)
(***************************************************************************)
\* A key-value mapping or the absence marker.
MappingOrAbsence(v) == v.t \in {"dict", "NoneType"}

\* The raw strings that are the serialisation of a key-value mapping.
ParsesAsMapping(raw) == raw = "{\"host\": \"x\"}"

(***************************************************************************)
(* C14.  The result of get_secret is exactly one of a key-value mapping    *)
(* or None; a raw environment string that does not parse as a mapping is   *)
(* returned wrapped as {"value": raw}; no other kind of value is ever      *)
(* returned or cached.                                                     *)
(***************************************************************************)
C14_MappingOrAbsence ==
    /\ \A n \in DOMAIN _cache : MappingOrAbsence(_cache[n])
    /\ \A t \in Callers :
         /\ sec_ret[t].type = "return" => MappingOrAbsence(sec_ret[t].val)
         /\ \A i \in 1 .. Len(sec_lookups[t]) :
              LET raw == environ[env_key(sec_name[t])]
              IN (sec_lookups[t][i].src = "env" /\ raw # Unset /\ ~ParsesAsMapping(raw))
                 => sec_lookups[t][i].val = [t |-> "dict", v |-> "value=" \o raw]

(***************************************************************************)
(* C15.  No failure of a source leaves get_secret as an exception: when    *)
(* _fetch_from_aws yields nothing get_secret goes on to _fetch_from_env,   *)
(* and the call ends by returning and caching a mapping or None.           *)
(***************************************************************************)
C15_SourceFailuresAbsorbed ==
    \A t \in Callers :
        /\ sec_ret[t].type # "raise"
        /\ (sec_pc[t] = "done" /\ ~sec_hit[t]) =>
              /\ sec_lookups[t][1].val = SecNone =>
                    Len(sec_lookups[t]) = 2 /\ sec_lookups[t][2].src = "env"
              /\ sec_ret[t].type = "return"
              /\ sec_name[t] \in DOMAIN _cache
              /\ _cache[sec_name[t]] = sec_ret[t].val
              /\ sec_ret[t].val.t = "dict" \/ sec_ret[t].val = SecNone

(***************************************************************************)
(* C17.  The cache is keyed by the secret name alone and the region goes   *)
(* to _fetch_from_aws only: on a miss _fetch_from_aws receives exactly     *)
(* the caller's (name, region); once a get_secret(name, r1) has written    *)
(* the entry, get_secret(name, r2) returns it for every region r2 and      *)
(* invokes neither source.                                                 *)
(***************************************************************************)
C17_KeyedByNameOnly ==
    \A t \in Callers :
        /\ \A i \in 1 .. Len(sec_lookups[t]) :
             LET l == sec_lookups[t][i]
             IN /\ l.name = sec_name[t]
                /\ l.src = "aws" => l.region = sec_region[t]
                /\ l.src = "env" => l.region = ""
        \* a source is consulted only while no call, of any region, has
        \* written an entry for the name
        /\ sec_pc[t] \in {"l57", "l58", "l63", "l64"} => populated_by[sec_name[t]] = ""
        /\ (sec_pc[t] \in {"l54", "done"} /\ populated_by[sec_name[t]] # "" /\ sec_hit[t]) =>
              /\ sec_lookups[t] = <<>>
              /\ _cache[sec_name[t]] = sec_seen[t]
              /\ sec_pc[t] = "done" => sec_ret[t] = SecReturned(sec_seen[t])

\* The entry was written by a call for one region and is returned to a call
\* for another.
C17_Witness ==
    \E t \in Callers :
        /\ sec_pc[t] = "done"
        /\ sec_hit[t]
        /\ populated_by[sec_name[t]] = "eu-west-1"
        /\ sec_region[t] = "us-east-1"
        /\ sec_lookups[t] = <<>>
        /\ sec_ret[t] = SecReturned(SecVal("dict", "host=x"))

(***************************************************************************)
(* C16.  clear_cache() is mutually exclusive with the writes of running    *)
(* get_secret calls: it does not take effect between the miss of a         *)
(* get_secret and its write, so once a clear has completed the cache       *)
(* holds no value that was looked up before that clear.                    *)
(***************************************************************************)
C16_ClearExcludesResolveWrites ==
    /\ stale_names = {}
    /\ \A t \in Callers : sec_pc[t] = "done" => ~sec_stale[t]

(***************************************************************************)
(* Vocabulary of the properties of the shared Redis connection             *)
(***************************************************************************)
\* The URL a call is to connect to: the explicit url, else REDIS_URL as it
\* was at the call, else the default URL.
UrlOfCall(call) ==
    IF call.url # NoUrl THEN call.url
    ELSE IF call.env # Unset THEN call.env
    ELSE "redis://localhost:6379/0"

(***************************************************************************)
(* C18.  Between two closes, any sequence of get_async_redis calls         *)
(* creates exactly one connection: a single from_url call, with the        *)
(* explicit url, else REDIS_URL, else the default URL, of the first call;  *)
(* every call returns that same connection, later calls with another url   *)
(* or decode_responses included.                                           *)
(***************************************************************************)
C18_OneConnectionBetweenCloses ==
    /\ redis_created <= 1
    /\ redis_first.set <=> redis_returned # {}
    /\ redis_first.set =>
          /\ redis_created = 1
          /\ _redis # NoConn
          /\ redis_returned = {_redis}
          /\ conns[_redis].url = UrlOfCall(redis_first)
          /\ conns[_redis].decode_responses = redis_first.decode_responses
    /\ \A k \in Tasks :
          (redis_pc[k] = "done" /\ redis_args[k].op = "get_async_redis") =>
              redis_ret[k] = _redis /\ _redis # NoConn

\* The first call took REDIS_URL and decode_responses=True; a later call with
\* an explicit url and decode_responses=False, made after REDIS_URL was
\* unset, gets the connection of the first.
C18_Witness ==
    \E k \in Tasks :
        /\ redis_pc[k] = "done"
        /\ redis_args[k] = GetCall("redis://explicit:6379/2", FALSE)
        /\ redis_first.set /\ redis_first.url = NoUrl
        /\ redis_first.env = "redis://custom:6380/1"
        /\ redis_env = Unset
        /\ redis_created = 1
        /\ conns[redis_ret[k]].url = "redis://custom:6380/1"
        /\ conns[redis_ret[k]].decode_responses

(***************************************************************************)
(* C19.  close_redis awaits aclose() exactly once on the current shared    *)
(* connection and then resets _redis to None, so the next get_async_redis  *)
(* creates and returns a new connection; with no connection close_redis    *)
(* does nothing and leaves _redis None, so closing twice in a row is       *)
(* harmless.                                                               *)
(***************************************************************************)
C19_ClosedOnceThenNone ==
    /\ \A i \in DOMAIN conns :
         /\ conns[i].aclose <= 1
         /\ conns[i].closed => conns[i].aclose = 1
         /\ i # _redis => conns[i].closed
    /\ \A k \in Tasks :
         /\ redis_pc[k] = "l76" =>
               redis_closing[k] = _redis /\ conns[_redis].aclose = 1
         /\ (redis_pc[k] = "done" /\ redis_args[k].op = "close_redis") =>
               /\ _redis = NoConn
               /\ redis_closing[k] # NoConn => conns[redis_closing[k]].closed
         /\ (redis_pc[k] = "done" /\ redis_args[k].op = "get_async_redis") =>
               /\ redis_ret[k] = _redis /\ _redis # NoConn
               /\ conns[_redis].aclose = 0

C19_CloseResets ==
    /\ [](C19_ClosedOnceThenNone)
    /\ [][ \A k \in Tasks :
             ( /\ redis_pc[k] = "idle" /\ redis_pc'[k] = "done"
               /\ redis_args'[k].op = "close_redis" )
             => _redis = NoConn /\ _redis' = NoConn /\ conns' = conns ]_vars

\* A connection was closed, and the next get_async_redis made a second one.
C19_Witness ==
    \E k \in Tasks :
        /\ redis_pc[k] = "done"
        /\ redis_args[k].op = "get_async_redis"
        /\ redis_ret[k] = 2
        /\ conns[1].aclose = 1 /\ conns[1].closed
        /\ conns[2].aclose = 0

(***************************************************************************)
(* Vocabulary of the properties of rate limiting                           *)
(***************************************************************************)
\* Rate limiting is off for a setup call: slowapi is not installed, or the
\* call was given a config whose enabled is false.
RateLimitingOff(call) ==
    \/ ~_SLOWAPI_AVAILABLE
    \/ call.called /\ call.config.given /\ ~call.config.enabled

(***************************************************************************)
(* C20.  When rate limiting is off (slowapi not installed, or a config     *)
(* whose enabled is false), setup_rate_limiting returns None, registers    *)
(* no exception handler on the app and leaves get_limiter() returning      *)
(* None even if an earlier setup had configured a limiter, and             *)
(* rate_limit(limit)(f) returns f itself.                                  *)
(***************************************************************************)
C20_OffSetupLeavesNothing ==
    (setup_last.called /\ RateLimitingOff(setup_last)) =>
        /\ setup_ret = NoLimiter
        /\ app_handlers = setup_last.handlers_before
        /\ get_limiter = NoLimiter

AuthDone(factory) == auth_pc = "done" /\ auth_dep.factory = factory

Blank(h) == ~h.present \/ \A i \in 1 .. Len(h.value) : h.value[i] = " "

\* The role names of the X-User-Roles header: the comma-separated segments
\* with their surrounding blanks removed, the empty ones left out.
RECURSIVE Trimmed(_)
Trimmed(s) ==
    IF s # <<>> /\ s[1] = " " THEN Trimmed(Tail(s))
    ELSE IF s # <<>> /\ s[Len(s)] = " " THEN Trimmed(SubSeq(s, 1, Len(s) - 1))
    ELSE s

RoleNames(h) ==
    IF ~h.present THEN {}
    ELSE LET v == <<",">> \o h.value \o <<",">>
         IN { Trimmed(SubSeq(v, i + 1, j - 1)) :
                <<i, j>> \in { p \in (1 .. Len(v)) \X (1 .. Len(v)) :
                                 /\ p[1] < p[2]
                                 /\ v[p[1]] = "," /\ v[p[2]] = ","
                                 /\ \A l \in p[1] + 1 .. p[2] - 1 : v[l] # "," } }
            \ {<<>>}

RequiredRoles == { auth_dep.roles[i] : i \in 1 .. Len(auth_dep.roles) }

\* C21: the dependency built by require_role raises 401 when X-User-Id is
\* missing or blank, whatever the roles; otherwise it returns the user when
\* the user's roles contain admin or at least one of the required roles, and
\* raises 403 "Insufficient role" in every other case, a user with no roles
\* included.
C21_RoleDependencyContract ==
    AuthDone("require_role") =>
        IF Blank(auth_request.id)
        THEN auth_response.status = 401
        ELSE IF <<"admin">> \in RoleNames(auth_request.roles)
                \/ RequiredRoles \cap RoleNames(auth_request.roles) # {}
        THEN /\ auth_response.status = 200
             /\ auth_response.user.user_id = Trimmed(auth_request.id.value)
             /\ { auth_response.user.roles[i] : i \in 1 .. Len(auth_response.user.roles) }
                  = RoleNames(auth_request.roles)
        ELSE /\ auth_response.status = 403
             /\ auth_response.detail = <<"Insufficient role">>

\* an admin who holds none of the required roles was let through, and a user
\* without roles was refused with 403
C21_Witness ==
    /\ AuthDone("require_role")
    /\ ~Blank(auth_request.id)
    /\ auth_dep.roles = << <<"trader">> >>
    /\ auth_request.roles = Present(<<" ", "admin", ",">>)
    /\ auth_response.status = 200

\* The permissions the installed contracts grant to a role name
GrantedTo(role) ==
    IF contracts.ok /\ role \in DOMAIN contracts.map THEN contracts.map[role] ELSE {}

RequiredPermissions == { auth_dep.permissions[i] : i \in 1 .. Len(auth_dep.permissions) }

HeldPermissions == UNION { GrantedTo(role) : role \in RoleNames(auth_request.roles) }

\* C22: the dependency built by require_permission raises 401 when the
\* request is unauthenticated; otherwise it returns the user when the user's
\* roles contain admin or every required permission is in the union of the
\* permissions of the user's roles, and otherwise raises 403 with a detail
\* that names exactly the required permissions the user lacks.
C22_PermissionDependencyContract ==
    AuthDone("require_permission") =>
        IF Blank(auth_request.id)
        THEN auth_response.status = 401
        ELSE IF <<"admin">> \in RoleNames(auth_request.roles)
                \/ RequiredPermissions \subseteq HeldPermissions
        THEN /\ auth_response.status = 200
             /\ auth_response.user.user_id = Trimmed(auth_request.id.value)
        ELSE /\ auth_response.status = 403
             /\ Head(auth_response.detail) = "Missing permissions: "
             /\ { auth_response.detail[i] : i \in 2 .. Len(auth_response.detail) }
                  = RequiredPermissions \ HeldPermissions

\* a trader asked for data:read and ml:train was refused for ml:train alone
C22_Witness ==
    /\ AuthDone("require_permission")
    /\ contracts.ok
    /\ auth_dep.permissions = <<"data:read", "ml:train">>
    /\ RoleNames(auth_request.roles) = { <<"trader">> }
    /\ auth_response.status = 403
    /\ auth_response.detail = <<"Missing permissions: ", "ml:train">>

(***************************************************************************)
(* Claim vocabulary for the health app.                                    *)
(***************************************************************************)
Answered(path) == health_pc = "done" /\ health_endpoint = path

CheckAbsentOrTrue ==
    \/ ~health_app.check_dependencies.present
    \/ /\ health_app.check_dependencies.raises = NoException
       /\ health_app.check_dependencies.value

CheckReturnsFalse ==
    /\ health_app.check_dependencies.present
    /\ health_app.check_dependencies.raises = NoException
    /\ ~health_app.check_dependencies.value

\* C23: /ready answers 200 with status "ready" plus the fields of
\* get_status() exactly when the dependency check is absent or returns true
\* and no callback raises; in every other case it answers 503 with status
\* "not_ready" and no exception reaches the client; get_status is not invoked
\* when the check returns false; /health answers 200 "healthy" whatever the
\* callbacks do.
C23_ReadyProbeContract ==
    /\ Answered("/ready") =>
          /\ health_response.raised = NoException
          /\ IF CheckAbsentOrTrue /\ health_app.get_status.raises = NoException
             THEN /\ health_response.status_code = 200
                  /\ health_response.content["status"] = "ready"
                  /\ \A k \in DOMAIN health_app.get_status.value :
                        /\ k \in DOMAIN health_response.content
                        /\ health_response.content[k] = health_app.get_status.value[k]
             ELSE /\ health_response.status_code = 503
                  /\ health_response.content["status"] = "not_ready"
          /\ CheckReturnsFalse =>
                \A i \in 1 .. Len(health_calls) : health_calls[i] # "get_status"
    /\ Answered("/health") =>
          /\ health_response.status_code = 200
          /\ health_response.content["status"] = "healthy"

(***************************************************************************)
(* C24.  With the default ceiling (300) and the default base (2),          *)
(* calculate_backoff returns 300 for every attempt index of 8 or more, as  *)
(* the example table of its docstring says.                                *)
(***************************************************************************)
C24_CappedFromAttemptEight ==
    (cb_pc = "returned" /\ cb_max = DefaultMaxBackoff /\ cb_base = DefaultBase /\ cb_attempt >= 8)
        => cb_result = 300

(***************************************************************************)
(* C25.  If attempts 1..j-1 failed with retryable kinds and attempt        *)
(* j <= max_attempts fails with a kind outside retryable_kinds, the        *)
(* operation has been invoked exactly j times, the failure that reaches    *)
(* the caller is the failure object of attempt j, and neither an on_retry  *)
(* call nor a suspension follows attempt j.                                *)
(***************************************************************************)
C25_NonRetryableAtAttemptJ ==
    \A m \in Modes : \A j \in 1 .. Len(outcomes) :
        ( /\ Calls(m) >= j
          /\ j <= policy.max_attempts
          /\ NonRetryableFailure(j)
          /\ \A i \in 1 .. j - 1 : RetryableFailure(i) )
        => /\ Calls(m) = j
           /\ events[m][Len(events[m])] = CallEvent(j)
           /\ Done(m)
           /\ result[m] = Raised(outcomes[j].obj)
           /\ \A i \in 1 .. j - 1 : result[m] # Raised(outcomes[i].obj)

C25_Witness ==
    /\ policy.max_attempts = 3
    /\ policy.on_retry.present
    /\ RetryableFailure(1) /\ NonRetryableFailure(2)
    /\ \A m \in Modes :
         /\ Done(m)
         /\ Calls(m) = 2
         /\ Len(EventsOf(m, "sleep")) = 1
         /\ result[m] = Raised(outcomes[2].obj)

(***************************************************************************)
(* C26.  Every suspension of the retry executor is followed by another     *)
(* invocation of the operation; no suspension and no on_retry call happens *)
(* after a successful attempt or after the failure of the last allowed     *)
(* attempt; a run with f failed attempts that ends without a success has   *)
(* made exactly f-1 suspensions, a run that succeeds after f failures      *)
(* exactly f.                                                              *)
(***************************************************************************)
Suspensions(m) == Len(EventsOf(m, "sleep"))

\* The invocations of mode m that failed, and whether its last one succeeded.
FailedAttempts(m) == Cardinality({ j \in 1 .. Calls(m) : ~outcomes[j].ok })
Succeeded(m) == Calls(m) >= 1 /\ outcomes[Calls(m)].ok

C26_NothingAfterTheEnd ==
    \A m \in Modes : \A p \in 1 .. Len(events[m]) :
        LET e == events[m][p]
        IN (e.ev = "call" /\ (outcomes[e.n].ok \/ e.n >= policy.max_attempts))
           => p = Len(events[m])

C26_SuspensionCount ==
    \A m \in Modes :
        Done(m) =>
            Suspensions(m) = IF Succeeded(m) THEN FailedAttempts(m)
                             ELSE IF Calls(m) >= 1 THEN FailedAttempts(m) - 1
                             ELSE 0

C26_SuspensionThenInvocation ==
    /\ [](C26_NothingAfterTheEnd /\ C26_SuspensionCount)
    /\ \A m \in Modes : \A k \in 1 .. MaxAttempts :
          (Suspensions(m) = k) ~> (Calls(m) = k + 1)

C26_Witness ==
    /\ policy.max_attempts = 3
    /\ Done("sync") /\ Done("async")
    /\ Len(outcomes) = 3
    /\ ~outcomes[1].ok /\ ~outcomes[2].ok /\ outcomes[3].ok
    /\ Suspensions("sync") = 2 /\ Suspensions("async") = 2
    /\ events["async"][Len(events["async"])] = CallEvent(3)

(***************************************************************************)
(* C27.  For every integer max_attempts, zero and negative included, and   *)
(* every failure object, falsy ones included, a call of the wrapper, sync  *)
(* or async, returns normally only if some invocation of the operation     *)
(* returned normally, and then returns that invocation's value; in every   *)
(* other case the call ends by raising a failure.                          *)
(***************************************************************************)
C27_ReturnsOnlyWhatTheOperationReturned ==
    \A m \in Modes :
        Done(m) =>
            IF \E j \in 1 .. Calls(m) : outcomes[j].ok
            THEN \E j \in 1 .. Calls(m) : outcomes[j].ok /\ result[m] = Returned(outcomes[j].obj)
            ELSE result[m].type = "raise"

(***************************************************************************)
(* C28.  When several get_secret calls for the same name run concurrently  *)
(* with no clear_cache() among them, then once all of them have completed  *)
(* every one has returned the same value, the one the cache holds for the  *)
(* name, whatever each of their lookups obtained.                          *)
(***************************************************************************)
C28_ConcurrentResolvesAgree ==
    (\A t \in Callers : sec_pc[t] = "done") =>
        \A t \in Callers :
            /\ sec_name[t] \in DOMAIN _cache
            /\ sec_ret[t] = SecReturned(_cache[sec_name[t]])
            /\ \A u \in Callers : sec_name[u] = sec_name[t] => sec_ret[u] = sec_ret[t]

(***************************************************************************)
(* C29.  Under every interleaving of concurrent get_async_redis and        *)
(* close_redis coroutines no connection is lost unclosed: a connection the *)
(* module created and no longer references has had aclose awaited on it;   *)
(* and get_async_redis never hands out a connection on which aclose has    *)
(* already been started.                                                   *)
(***************************************************************************)
C29_NoConnectionLost ==
    \A c \in 1 .. Len(conns) : c # _redis => conns[c].aclose >= 1

C29_HandsOutOpenConnection ==
    \A k \in Tasks :
        (redis_pc[k] = "idle" /\ redis_pc'[k] = "done" /\ redis_args'[k].op = "get_async_redis")
        => conns'[redis_ret'[k]].aclose = 0

C29_NoLostOrClosingConnection ==
    [](C29_NoConnectionLost) /\ [][C29_HandsOutOpenConnection]_vars

(***************************************************************************)
(* C30.  Whether an endpoint is rate limited does not depend on the order  *)
(* of decoration and setup: a function decorated with rate_limit is        *)
(* subject to a limiter whenever setup_rate_limiting has configured one,   *)
(* whether the decoration ran before or after the setup call.              *)
(***************************************************************************)
C30_DecorationOrderIrrelevant ==
    \A f \in Funcs :
        (decorated[f] # NotDecorated /\ _limiter # NoLimiter) => decorated[f] \in 1 .. Len(limiters)

====
